---- MODULE Spec2Model ----
(***************************************************************************)
(* Verification model of the Thor kernel core (managarm): the capability   *)
(* table (Universe), the IPC channels of a BiDirectionPipe, servers, and   *)
(* event hubs, as reached through the Hel syscall dispatcher thorSyscall.  *)
(***************************************************************************)
EXTENDS Integers, Sequences, FiniteSets, TLC

(***************************************************************************)
(* Bounds of the model.                                                    *)
(***************************************************************************)
\* Handles a Universe hands out before the model stops attaching.
MaxHandle == 4
\* Submitting calls (SendString and SubmitRecvString, or SubmitAccept and
\* SubmitConnect) the kernel accepts in a run.
MaxCalls == 4
\* Servers created in a run.
MaxServers == 1
\* Threads of the universe, the init thread included.
MaxThreads == 3
\* Messages sent, and receives submitted, to post events to a hub.
MaxPosts == 3
\* WaitForEvents calls in a run.
MaxWaits == 2
\* Timer ticks in a run.
MaxTime == 3

(***************************************************************************)
(* State.                                                                  *)
(***************************************************************************)
VARIABLES
    descriptorMap,  \* Universe::_descriptorMap : Handle -> AnyDescriptor
    nextHandle,     \* Universe::_nextHandle
    panicked,       \* the kernel ran friggPanic() (a failed assert)
    attached,       \* history: handle -> descriptor it was attached with
    detached,       \* history: handles removed by detachDescriptor
    issued,         \* history: handles returned by attachDescriptor, in order
    lastOp,         \* the last Universe operation and what it returned
    pipes,          \* BiDirectionPipe objects: id -> [first, second] channels
    hubs,           \* EventHub objects: id -> queue of events
    servers,        \* Server objects: id -> [accepts, connects] queues
    userMem,        \* user memory: buffer address -> bytes
    ret,            \* thread -> result words its last syscall returned
    currentThread,  \* the Running thread (0: none, the CPU idles)
    threads,        \* thread id -> [state, wait]
    scheduleQueue,  \* the ready queue
    now,            \* the clock, in timer ticks
    sendLog,        \* history: the accepted SendString calls, in order
    recvLog,        \* history: the accepted SubmitRecvString calls, in order
    completions,    \* history: the completed receives, in order
    acceptLog,      \* history: the accepted SubmitAccept calls, in order
    connectLog,     \* history: the accepted SubmitConnect calls, in order
    rendezvous,     \* history: the accept/connect pairings, in order
    posted,         \* history: the events posted to hubs, in order
    delivered,      \* history: the WaitForEvents returns with Ok, in order
    lastCall,       \* the kernel entry taken last
    nextAsyncId,    \* the static counter allocAsyncId() increments
    asyncCalls,     \* caller -> its position inside allocAsyncId()
    asyncIssued,    \* history: the values fetchInc fetched, in order
    asyncReturned,  \* history: the values allocAsyncId() returned, in order
    irqRelays,      \* irqRelays: vector -> the relay's waiter list
    irqTrace,       \* history: what the last thorIrq() did, in order
    irqSubs,        \* history: the accepted SubmitWaitForIrq calls, in order
    irqFiredAt,     \* history: vector -> Len(irqSubs) when it fired last
    image,          \* module 0: the program headers of the init ELF
    loader,         \* where thorMain / loadInitImage is, and its locals
    mappings,       \* the Mappings of the init thread's AddressSpace
    pageTable,      \* its page space: virtual page address -> frame
    memories,       \* Memory objects: id -> the frames of its pages
    frameData,      \* frame -> its fill and the bytes written since
    cpuData,        \* CpuData: cpu -> its irqMutex and the contexts on it
    spinlocks,      \* spinlock -> the cpu holding it (0: free)
    universeCalls,  \* cpu -> its position inside a Universe operation
    kernelHeap,     \* the kernel's page space, free frames, and heap runs
    boot,           \* thorMain after loadInitImage: modules, handle, thread
    temporaries,    \* AnyDescriptor objects outside the Universe's map
    dispatch,       \* where control is inside thorSyscall, and what it did
    uhci            \* the UHCI driver: its controller, schedule and transactions

universeVars == <<descriptorMap, nextHandle, panicked>>
historyVars == <<attached, detached, issued, lastOp>>
objectVars == <<pipes, hubs, servers, userMem>>
threadVars == <<currentThread, threads, scheduleQueue, now>>
ipcHistoryVars == <<sendLog, recvLog, completions>>
serverHistoryVars == <<acceptLog, connectLog, rendezvous>>
hubHistoryVars == <<posted, delivered>>
asyncVars == <<nextAsyncId, asyncCalls, asyncIssued, asyncReturned>>
\* State the syscalls of the first sections never touch.
irqVars == <<irqRelays, irqTrace, irqSubs, irqFiredAt>>
spaceVars == <<image, loader, mappings, pageTable, memories, frameData>>
\* Locks and processors.
machineVars ==
    <<cpuData, spinlocks, universeCalls, kernelHeap, boot, temporaries,
      dispatch, uhci>>
extVars == <<asyncVars, irqVars, spaceVars, machineVars>>

\* The relays: a static array indexed by the interrupt vector.
NumRelays == 256

\* The vectors the model raises: the timer's and a device's (the last one).
IrqVectors == {0, NumRelays - 1}

\* irqRelays.initialize(): no relay has a waiter.
NewIrqRelay == <<>>

\* The state of the later sections before any of their operations ran.
InitKernel ==
    /\ nextAsyncId = 1
    /\ asyncCalls = <<>>
    /\ asyncIssued = <<>>
    /\ asyncReturned = <<>>
    /\ irqRelays = [v \in IrqVectors |-> NewIrqRelay]
    /\ irqTrace = <<>>
    /\ irqSubs = <<>>
    /\ irqFiredAt = [v \in IrqVectors |-> 0]

\* No address space is looked at: the loading of the init image is over.
NotLoading ==
    /\ image = <<>>
    /\ loader = [pc |-> "done", i |-> 0, page |-> 0, mapping |-> 0,
                 memory |-> 0, used |-> {}]
    /\ mappings = {}
    /\ pageTable = <<>>
    /\ memories = <<>>
    /\ frameData = <<>>

\* The processors the model runs.
Cpus == {1, 2}

\* The spinlocks: KernelVirtualMemory::_mutex, Universe::lock, and the locks
\* of a channel and of an event hub.
Spinlocks == {"_mutex", "universe", "channel", "hub"}

\* CpuData(): the irqMutex is not held and nothing runs in the kernel.
NewCpuData == [nesting |-> 0, contexts |-> <<>>]

\* The thread of a processor is outside the Universe operations.
NoUniverseCall == [pc |-> "idle", op |-> "none", guard |-> "none", arg |-> 0,
                   handle |-> 0]

\* The places for AnyDescriptor objects the kernel code holds by value.
TempSlots == {1, 2}

\* A place that holds no object (never constructed, or destroyed).
NoObject == [type |-> "none", obj |-> 0]

\* Control is in user mode: thorSyscall is not running.
NoDispatch ==
    [pc |-> "user", index |-> "none", case |-> 0, error |-> "none",
     invoked |-> <<>>, exits |-> <<>>]

\* thorMain has not read the module table.
NoBoot == [pc |-> "none"]

\* The kernel heap is not looked at.
NoKernelHeap == [pc |-> "none"]

\* The UHCI driver has not started.
NoUhci == [pc |-> "none"]

\* No processor is in the kernel and every lock is free.
InitMachine ==
    /\ cpuData = [c \in Cpus |-> NewCpuData]
    /\ spinlocks = [l \in Spinlocks |-> 0]
    /\ universeCalls = [c \in Cpus |-> NoUniverseCall]
    /\ kernelHeap = NoKernelHeap
    /\ boot = NoBoot
    /\ temporaries = [i \in TempSlots |-> NoObject]
    /\ dispatch = NoDispatch
    /\ uhci = NoUhci

InitExt == InitKernel /\ NotLoading /\ InitMachine

(***************************************************************************)
(* Descriptors.  AnyDescriptor is a tagged variant: a type tag and the     *)
(* object the descriptor refers to.                                        *)
(***************************************************************************)
DescriptorTypes ==
    {"MemoryAccess", "BiDirectionFirst", "BiDirectionSecond", "Server",
     "Client", "EventHub", "Irq", "Io", "Thread"}

AnyDescriptor(type, obj) == [type |-> type, obj |-> obj]

\* What Hashmap::get returns for a missing key (a null pointer) and what
\* Hashmap::remove returns for one (an empty Optional).
NullDescriptor == [type |-> "null", obj |-> 0]

(***************************************************************************)
(* Universe (the capability table).  A universe value is the pair of the   *)
(* descriptor map and the next-handle counter.                             *)
(***************************************************************************)
\* Universe::Universe(): an empty map, _nextHandle(1).
NewUniverse == [map |-> <<>>, next |-> 1]

\* guard.protects(&lock): the caller's guard is one of the universe's lock.
\* (a variant that answers yes for a guard of any lock)
GuardProtects_Any(guard) == TRUE

GuardProtects(guard) == guard = "universe"

\* Handle handle = _nextHandle++; _descriptorMap.insert(handle, descriptor);
\* return handle.
\* (a variant that hands out the smallest free handle value instead)
attachDescriptor_Reuse(u, descriptor) ==
    LET free == {h \in 1..u.next : h \notin DOMAIN u.map}
        handle == CHOOSE h \in free : \A g \in free : h <= g
    IN [u |-> [map |-> [h \in (DOMAIN u.map) \cup {handle} |->
                           IF h = handle THEN descriptor ELSE u.map[h]],
               next |-> IF handle = u.next THEN u.next + 1 ELSE u.next],
        handle |-> handle]

attachDescriptor(u, descriptor) ==
    LET handle == u.next
    IN [u |-> [map |-> [h \in (DOMAIN u.map) \cup {handle} |->
                           IF h = handle THEN descriptor ELSE u.map[h]],
               next |-> u.next + 1],
        handle |-> handle]

\* return _descriptorMap.get(handle): the entry, or null.
getDescriptor(u, handle) ==
    IF handle \in DOMAIN u.map THEN u.map[handle] ELSE NullDescriptor

\* return _descriptorMap.remove(handle): the removed entry, or empty.
\* (a variant that returns the entry and forgets to remove it)
detachDescriptor_Keep(u, handle) ==
    [u |-> u,
     result |-> IF handle \in DOMAIN u.map THEN u.map[handle]
                ELSE NullDescriptor]

detachDescriptor(u, handle) ==
    IF handle \in DOMAIN u.map
    THEN [u |-> [map |-> [h \in (DOMAIN u.map) \ {handle} |-> u.map[h]],
                 next |-> u.next],
          result |-> u.map[handle]]
    ELSE [u |-> u, result |-> NullDescriptor]

TheUniverse == [map |-> descriptorMap, next |-> nextHandle]

(***************************************************************************)
(* Sequences.                                                              *)
(***************************************************************************)
RemoveAt(q, i) == SubSeq(q, 1, i - 1) \o SubSeq(q, i + 1, Len(q))

\* The smallest index of q whose element satisfies P, 0 when there is none.
FirstIndex(q, P(_)) ==
    IF \E i \in DOMAIN q : P(q[i])
    THEN CHOOSE i \in DOMAIN q : P(q[i]) /\ \A j \in 1..(i - 1) : ~P(q[j])
    ELSE 0

(***************************************************************************)
(* Event hubs.  An event is the record delivered to user space:            *)
(* (type, error, async_id, submit_function, submit_object, length,         *)
(* msg_request, msg_seq, handle); unused fields are zero.                  *)
(***************************************************************************)
UserEvent(type, error, info, length, msgRequest, msgSeq, handle) ==
    [type |-> type, error |-> error, asyncId |-> info.asyncId,
     submitFunction |-> info.submitFunction,
     submitObject |-> info.submitObject, length |-> length,
     msgRequest |-> msgRequest, msgSeq |-> msgSeq, handle |-> handle]

SubmitInfo(asyncId, submitFunction, submitObject) ==
    [asyncId |-> asyncId, submitFunction |-> submitFunction,
     submitObject |-> submitObject]

\* Posting an event appends it to the hub's FIFO.
raiseEvent(hs, hub, event) == [hs EXCEPT ![hub] = Append(@, event)]

(***************************************************************************)
(* Channels.  A channel holds the pending messages (sent, not matched) and *)
(* the pending receives (waiting for a message), both FIFO.                *)
(***************************************************************************)
\* The wildcard of a receive filter.
kHelAnyRequest == -1
kHelAnySequence == -1

NewChannel == [messages |-> <<>>, recvs |-> <<>>]

\* BiDirectionPipe::BiDirectionPipe(): two empty channels.
NewBiDirectionPipe == [first |-> NewChannel, second |-> NewChannel]

\* The matching rule: each filter value is the wildcard or equals the
\* message's tag.
Matches(message, recv) ==
    /\ recv.filterRequest = kHelAnyRequest
          \/ recv.filterRequest = message.msgRequest
    /\ recv.filterSeq = kHelAnySequence
          \/ recv.filterSeq = message.msgSeq

\* What matching a message with a receive does: the payload is copied into
\* the receiver's user buffer and a completion event goes to its hub.  A
\* message longer than the receive buffer completes the receive with
\* BufferTooSmall and copies nothing.
processStringRequest(message, recv) ==
    IF message.length <= recv.maxLength
    THEN [copy |-> TRUE,
          event |-> UserEvent("RecvString", "Ok", recv.submitInfo,
                              message.length, message.msgRequest,
                              message.msgSeq, 0)]
    ELSE [copy |-> FALSE,
          event |-> UserEvent("RecvString", "BufferTooSmall",
                              recv.submitInfo, 0, 0, 0, 0)]

\* Channel::sendString: complete the earliest waiting receive that matches,
\* otherwise enqueue the message.
\* (a variant that enqueues the message in both cases)
Channel_sendString_AlwaysEnqueue(channel, message) ==
    LET IsMatch(r) == Matches(message, r)
        i == FirstIndex(channel.recvs, IsMatch)
    IN IF i # 0
       THEN [channel |-> [channel EXCEPT !.recvs = RemoveAt(@, i),
                                         !.messages = Append(@, message)],
             done |-> <<[message |-> message, recv |-> channel.recvs[i],
                         waited |-> "recv"]>>]
       ELSE [channel |-> [channel EXCEPT !.messages = Append(@, message)],
             done |-> <<>>]

Channel_sendString(channel, message) ==
    LET IsMatch(r) == Matches(message, r)
        i == FirstIndex(channel.recvs, IsMatch)
    IN IF i # 0
       THEN [channel |-> [channel EXCEPT !.recvs = RemoveAt(@, i)],
             done |-> <<[message |-> message, recv |-> channel.recvs[i],
                         waited |-> "recv"]>>]
       ELSE [channel |-> [channel EXCEPT !.messages = Append(@, message)],
             done |-> <<>>]

\* Channel::submitRecvString: complete with the earliest pending message
\* that matches, otherwise enqueue the receive.
Channel_submitRecvString(channel, recv) ==
    LET IsMatch(m) == Matches(m, recv)
        i == FirstIndex(channel.messages, IsMatch)
    IN IF i # 0
       THEN [channel |-> [channel EXCEPT !.messages = RemoveAt(@, i)],
             done |-> <<[message |-> channel.messages[i], recv |-> recv,
                         waited |-> "message"]>>]
       ELSE [channel |-> [channel EXCEPT !.recvs = Append(@, recv)],
             done |-> <<>>]

\* The channel a descriptor writes to and the one it reads from: the First
\* descriptor reads from the first channel and writes to the second, the
\* Second descriptor reads from the second and writes to the first.
SendChannel_Same(type) ==
    IF type = "BiDirectionFirst" THEN "first" ELSE "second"

SendChannel(type) ==
    IF type = "BiDirectionFirst" THEN "second" ELSE "first"

RecvChannel(type) ==
    IF type = "BiDirectionFirst" THEN "first" ELSE "second"

IsPipeDescriptor(d) == d.type \in {"BiDirectionFirst", "BiDirectionSecond"}

(***************************************************************************)
(* The Hel operations behind the syscalls.  Each one is evaluated in the   *)
(* current state and yields the error word and the objects as it leaves    *)
(* them; `done` lists the receives it completed.                           *)
(***************************************************************************)
Effects(error, ps, hs, mem, done) ==
    [error |-> error, pipes |-> ps, hubs |-> hs, userMem |-> mem,
     done |-> done]

Fail(error) == Effects(error, pipes, hubs, userMem, <<>>)

\* Copy `bytes` to the user buffer at `address`.
copyToUser(mem, address, bytes) ==
    [mem EXCEPT ![address] =
        [i \in 1..Len(@) |-> IF i <= Len(bytes) THEN bytes[i] ELSE @[i]]]

\* Carry out the completions a channel operation produced.
Complete(ps, p, side, done) ==
    IF done = <<>>
    THEN Effects("Ok", ps, hubs, userMem, <<>>)
    ELSE LET message == done[1].message
             recv == done[1].recv
             pr == processStringRequest(message, recv)
         IN Effects("Ok", ps, raiseEvent(hubs, recv.hub, pr.event),
                    IF pr.copy
                    THEN copyToUser(userMem, recv.buffer, message.buffer)
                    ELSE userMem,
                    <<[pipe |-> p, side |-> side, message |-> message,
                       recv |-> recv, waited |-> done[1].waited,
                       event |-> pr.event]>>)

helSendString(call) ==
    LET d == getDescriptor(TheUniverse, call.handle)
    IN IF d = NullDescriptor THEN Fail("IllegalHandle")
       ELSE IF ~IsPipeDescriptor(d) THEN Fail("BadDescriptor")
       ELSE IF call.buffer \notin DOMAIN userMem THEN Fail("Fault")
       ELSE LET side == SendChannel(d.type)
                message ==
                    [buffer |-> SubSeq(userMem[call.buffer], 1, call.length),
                     length |-> call.length,
                     msgRequest |-> call.msgRequest,
                     msgSeq |-> call.msgSeq,
                     sno |-> Len(sendLog) + 1, by |-> d.type]
                r == Channel_sendString(pipes[d.obj][side], message)
            IN Complete([pipes EXCEPT ![d.obj][side] = r.channel],
                        d.obj, side, r.done)

helSubmitRecvString(call) ==
    LET d == getDescriptor(TheUniverse, call.handle)
        hd == getDescriptor(TheUniverse, call.hubHandle)
    IN IF d = NullDescriptor \/ hd = NullDescriptor
       THEN Fail("IllegalHandle")
       ELSE IF ~IsPipeDescriptor(d) \/ hd.type # "EventHub"
       THEN Fail("BadDescriptor")
       ELSE LET side == RecvChannel(d.type)
                recv ==
                    [hub |-> hd.obj, buffer |-> call.buffer,
                     maxLength |-> call.maxLength,
                     filterRequest |-> call.filterRequest,
                     filterSeq |-> call.filterSeq,
                     submitInfo |-> SubmitInfo(call.asyncId,
                                               call.submitFunction,
                                               call.submitObject),
                     rno |-> Len(recvLog) + 1, by |-> d.type]
                r == Channel_submitRecvString(pipes[d.obj][side], recv)
            IN Complete([pipes EXCEPT ![d.obj][side] = r.channel],
                        d.obj, side, r.done)

\* The event that fails a pending submit.
DismissedEvent(type, request) ==
    UserEvent(type, "Dismissed", request.submitInfo, 0, 0, 0, 0)

RECURSIVE raiseEvents(_, _)
raiseEvents(hs, posts) ==
    IF posts = <<>> THEN hs
    ELSE raiseEvents(raiseEvent(hs, posts[1].hub, posts[1].event),
                     [i \in 1..(Len(posts) - 1) |-> posts[i + 1]])

\* The submits pending through the descriptor d of `handle`: the receives
\* waiting in the channel it reads from, the accepts of its server, the
\* connects of its client end, the waits for its interrupt.
PendingThrough(handle, d) ==
    IF d.type \in {"BiDirectionFirst", "BiDirectionSecond"}
    THEN pipes[d.obj][RecvChannel(d.type)].recvs
    ELSE IF d.type = "Server" THEN servers[d.obj].accepts
    ELSE IF d.type = "Client" THEN servers[d.obj].connects
    ELSE IF d.type = "Irq"
    THEN LET Through(w) == w.via = handle
         IN SelectSeq(irqRelays[d.obj], Through)
    ELSE <<>>

\* The type of the completion event of a submit through d.
SubmitEventType(d) ==
    IF d.type \in {"BiDirectionFirst", "BiDirectionSecond"} THEN "RecvString"
    ELSE IF d.type = "Server" THEN "Accept"
    ELSE IF d.type = "Client" THEN "Connect"
    ELSE "Irq"

\* helCloseDescriptor without the dismissal of what is pending.
helCloseDescriptor_DetachOnly(handle) ==
    LET r == detachDescriptor(TheUniverse, handle)
    IN [error |-> IF r.result = NullDescriptor THEN "IllegalHandle" ELSE "Ok",
        u |-> r.u, pipes |-> pipes, servers |-> servers,
        relays |-> irqRelays, hubs |-> hubs, posts |-> <<>>]

\* helCloseDescriptor: detach the handle and drop the descriptor; the
\* submits pending through it are taken off their queues and each one is
\* failed with a Dismissed event on its hub.
helCloseDescriptor(handle) ==
    LET r == detachDescriptor(TheUniverse, handle)
        d == r.result
        pending == PendingThrough(handle, d)
        posts == [i \in DOMAIN pending |->
                     [hub |-> pending[i].hub,
                      event |-> DismissedEvent(SubmitEventType(d),
                                               pending[i])]]
    IN [error |-> IF d = NullDescriptor THEN "IllegalHandle" ELSE "Ok",
        u |-> r.u,
        pipes |-> IF d.type \in {"BiDirectionFirst", "BiDirectionSecond"}
                  THEN [pipes EXCEPT ![d.obj][RecvChannel(d.type)].recvs = <<>>]
                  ELSE pipes,
        servers |-> IF d.type = "Server"
                    THEN [servers EXCEPT ![d.obj].accepts = <<>>]
                    ELSE IF d.type = "Client"
                    THEN [servers EXCEPT ![d.obj].connects = <<>>]
                    ELSE servers,
        relays |-> IF d.type = "Irq"
                   THEN LET Others(w) == w.via # handle
                        IN [irqRelays EXCEPT ![d.obj] = SelectSeq(@, Others)]
                   ELSE irqRelays,
        hubs |-> raiseEvents(hubs, posts),
        posts |-> posts]

\* helCreateBiDirectionPipe: a new pipe, its First and then its Second
\* descriptor attached to the caller's universe.
helCreateBiDirectionPipe ==
    LET p == Len(pipes) + 1
        r1 == attachDescriptor(TheUniverse, AnyDescriptor("BiDirectionFirst", p))
        r2 == attachDescriptor(r1.u, AnyDescriptor("BiDirectionSecond", p))
    IN [error |-> "Ok", u |-> r2.u, first |-> r1.handle,
        second |-> r2.handle, pipes |-> Append(pipes, NewBiDirectionPipe)]

\* helCreateEventHub: a new, empty hub and its descriptor.
helCreateEventHub ==
    LET r == attachDescriptor(TheUniverse,
                              AnyDescriptor("EventHub", Len(hubs) + 1))
    IN [error |-> "Ok", u |-> r.u, handle |-> r.handle,
        hubs |-> Append(hubs, <<>>)]

(***************************************************************************)
(* IRQ relays.  A relay holds the hubs that wait for the next fire, each   *)
(* with the SubmitInfo of its submit.                                      *)
(***************************************************************************)
\* IrqRelay::submitWaitRequest: one more waiter.
IrqRelay_submitWaitRequest(relay, hub, info, via) ==
    Append(relay, [hub |-> hub, submitInfo |-> info, via |-> via])

\* The event a fire posts for one waiter.
IrqEvent(waiter) == UserEvent("Irq", "Ok", waiter.submitInfo, 0, 0, 0, 0)

RECURSIVE IrqRelay_post(_, _)
IrqRelay_post(waiters, hs) ==
    IF waiters = <<>> THEN hs
    ELSE IrqRelay_post(Tail(waiters),
                       raiseEvent(hs, Head(waiters).hub,
                                  IrqEvent(Head(waiters))))

\* IrqRelay::fire: one event to the hub of every waiter, in the order they
\* subscribed; the waiter list is then empty.
IrqRelay_fire(relay, hs) ==
    [relay |-> NewIrqRelay,
     hubs |-> IrqRelay_post(relay, hs),
     posts |-> [i \in DOMAIN relay |->
                   [hub |-> relay[i].hub, event |-> IrqEvent(relay[i])]]]

\* helAccessIrq: a descriptor for the relay of vector `number`.
helAccessIrq(number) ==
    LET r == attachDescriptor(TheUniverse, AnyDescriptor("Irq", number))
    IN IF number \notin 0..(NumRelays - 1)
       THEN [error |-> "NoSuchObject", u |-> TheUniverse, handle |-> 0]
       ELSE [error |-> "Ok", u |-> r.u, handle |-> r.handle]

\* helSubmitWaitForIrq: subscribe the hub to the next fire of the relay.
helSubmitWaitForIrq(call) ==
    LET d == getDescriptor(TheUniverse, call.handle)
        hd == getDescriptor(TheUniverse, call.hubHandle)
    IN IF d = NullDescriptor \/ hd = NullDescriptor
       THEN [error |-> "IllegalHandle", relays |-> irqRelays, irq |-> 0,
             hub |-> 0]
       ELSE IF d.type # "Irq" \/ hd.type # "EventHub"
       THEN [error |-> "BadDescriptor", relays |-> irqRelays, irq |-> 0,
             hub |-> 0]
       ELSE [error |-> "Ok",
             relays |-> [irqRelays EXCEPT ![d.obj] =
                            IrqRelay_submitWaitRequest(@, hd.obj,
                                SubmitInfo(call.asyncId, call.submitFunction,
                                           call.submitObject),
                                call.handle)],
             irq |-> d.obj, hub |-> hd.obj]

(***************************************************************************)
(* Servers.  A server holds the pending accepts and the pending connects,  *)
(* both FIFO; an accept and a connect that meet are taken off together.    *)
(***************************************************************************)
NewServer == [accepts |-> <<>>, connects |-> <<>>]

\* Server::submitAccept: pair with the oldest pending connect, otherwise
\* wait in the accept queue.
Server_submitAccept(server, request) ==
    IF server.connects # <<>>
    THEN [server |-> [server EXCEPT !.connects = Tail(@)],
          matched |-> <<[accept |-> request,
                         connect |-> Head(server.connects)]>>]
    ELSE [server |-> [server EXCEPT !.accepts = Append(@, request)],
          matched |-> <<>>]

\* Server::submitConnect: pair with the oldest pending accept, otherwise
\* wait in the connect queue.
Server_submitConnect(server, request) ==
    IF server.accepts # <<>>
    THEN [server |-> [server EXCEPT !.accepts = Tail(@)],
          matched |-> <<[accept |-> Head(server.accepts),
                         connect |-> request]>>]
    ELSE [server |-> [server EXCEPT !.connects = Append(@, request)],
          matched |-> <<>>]

\* What the kernel is free to do when it pairs an accept with a connect:
\* which end of the new pipe the accepter gets, whose descriptor is attached
\* first and whose event is posted first.
RendezvousChoices ==
    [acceptEnd : {"BiDirectionFirst", "BiDirectionSecond"},
     acceptAttachedFirst : BOOLEAN, acceptPostedFirst : BOOLEAN]

OtherEnd(type) ==
    IF type = "BiDirectionFirst" THEN "BiDirectionSecond"
    ELSE "BiDirectionFirst"

\* Pairing an accept with a connect: a new pipe, one endpoint descriptor
\* attached for each side, one event for each side carrying its handle.
processRequests(u, ps, hs, matched, choice) ==
    LET p == Len(ps) + 1
        accept == matched.accept
        connect == matched.connect
        acceptDescriptor == AnyDescriptor(choice.acceptEnd, p)
        connectDescriptor == AnyDescriptor(OtherEnd(choice.acceptEnd), p)
        r1 == attachDescriptor(u, IF choice.acceptAttachedFirst
                                  THEN acceptDescriptor
                                  ELSE connectDescriptor)
        r2 == attachDescriptor(r1.u, IF choice.acceptAttachedFirst
                                     THEN connectDescriptor
                                     ELSE acceptDescriptor)
        acceptHandle == IF choice.acceptAttachedFirst THEN r1.handle
                        ELSE r2.handle
        connectHandle == IF choice.acceptAttachedFirst THEN r2.handle
                         ELSE r1.handle
        acceptEvent == UserEvent("Accept", "Ok", accept.submitInfo,
                                 0, 0, 0, acceptHandle)
        connectEvent == UserEvent("Connect", "Ok", connect.submitInfo,
                                  0, 0, 0, connectHandle)
        posts == IF choice.acceptPostedFirst
                 THEN <<[hub |-> accept.hub, event |-> acceptEvent],
                        [hub |-> connect.hub, event |-> connectEvent]>>
                 ELSE <<[hub |-> connect.hub, event |-> connectEvent],
                        [hub |-> accept.hub, event |-> acceptEvent]>>
    IN [u |-> r2.u,
        pipes |-> Append(ps, NewBiDirectionPipe),
        hubs |-> raiseEvent(raiseEvent(hs, posts[1].hub, posts[1].event),
                            posts[2].hub, posts[2].event),
        handles |-> <<r1.handle, r2.handle>>,
        posts |-> posts,
        pairs |-> <<[pipe |-> p, accept |-> accept, connect |-> connect,
                     acceptHandle |-> acceptHandle,
                     connectHandle |-> connectHandle,
                     acceptEvent |-> acceptEvent,
                     connectEvent |-> connectEvent]>>]

ServerEffects(error, u, ss, ps, hs, handles, posts, pairs) ==
    [error |-> error, u |-> u, servers |-> ss, pipes |-> ps, hubs |-> hs,
     handles |-> handles, posts |-> posts, pairs |-> pairs]

ServerFail(error) ==
    ServerEffects(error, TheUniverse, servers, pipes, hubs, <<>>, <<>>, <<>>)

\* Carry out the pairing a server operation produced, if any.
Rendezvous(s, r, choice) ==
    LET ss == [servers EXCEPT ![s] = r.server]
    IN IF r.matched = <<>>
       THEN ServerEffects("Ok", TheUniverse, ss, pipes, hubs,
                          <<>>, <<>>, <<>>)
       ELSE LET pr == processRequests(TheUniverse, pipes, hubs,
                                      r.matched[1], choice)
            IN ServerEffects("Ok", pr.u, ss, pr.pipes, pr.hubs,
                             pr.handles, pr.posts, pr.pairs)

\* helCreateServer: a new server, its Server and then its Client descriptor
\* attached to the caller's universe.
helCreateServer ==
    LET s == Len(servers) + 1
        r1 == attachDescriptor(TheUniverse, AnyDescriptor("Server", s))
        r2 == attachDescriptor(r1.u, AnyDescriptor("Client", s))
    IN [error |-> "Ok", u |-> r2.u, server |-> r1.handle,
        client |-> r2.handle, servers |-> Append(servers, NewServer)]

helSubmitAccept(call, choice) ==
    LET d == getDescriptor(TheUniverse, call.handle)
        hd == getDescriptor(TheUniverse, call.hubHandle)
    IN IF d = NullDescriptor \/ hd = NullDescriptor
       THEN ServerFail("IllegalHandle")
       ELSE IF d.type # "Server" \/ hd.type # "EventHub"
       THEN ServerFail("BadDescriptor")
       ELSE LET request ==
                    [hub |-> hd.obj,
                     submitInfo |-> SubmitInfo(call.asyncId,
                                               call.submitFunction,
                                               call.submitObject),
                     no |-> Len(acceptLog) + 1]
            IN Rendezvous(d.obj,
                          Server_submitAccept(servers[d.obj], request),
                          choice)

helSubmitConnect(call, choice) ==
    LET d == getDescriptor(TheUniverse, call.handle)
        hd == getDescriptor(TheUniverse, call.hubHandle)
    IN IF d = NullDescriptor \/ hd = NullDescriptor
       THEN ServerFail("IllegalHandle")
       ELSE IF d.type # "Client" \/ hd.type # "EventHub"
       THEN ServerFail("BadDescriptor")
       ELSE LET request ==
                    [hub |-> hd.obj,
                     submitInfo |-> SubmitInfo(call.asyncId,
                                               call.submitFunction,
                                               call.submitObject),
                     no |-> Len(connectLog) + 1]
            IN Rendezvous(d.obj,
                          Server_submitConnect(servers[d.obj], request),
                          choice)

(***************************************************************************)
(* Threads and the scheduler.  A thread is Ready (in the ready queue),     *)
(* Running (the current thread) or Blocked (in WaitForEvents); `wait` is   *)
(* what a thread inside WaitForEvents waits for.                           *)
(***************************************************************************)
NoWait ==
    [hub |-> 0, buffer |-> 0, maxItems |-> 0, deadline |-> 0, since |-> 0,
     call |-> <<>>]

\* The kernel has not been entered yet.
NoCall == [index |-> "none", closedArg |-> FALSE]

\* The deadline of a wait that has none.
NoDeadline == -1

NewThread == [state |-> "Ready", wait |-> NoWait]

\* The elements of a set of thread ids, in ascending order.
RECURSIVE InOrder(_)
InOrder(S) ==
    IF S = {} THEN <<>>
    ELSE LET t == CHOOSE x \in S : \A y \in S : x <= y
         IN <<t>> \o InOrder(S \ {t})

\* Make the Blocked threads of W Ready and put them on the ready queue.
unblock(ts, q, W) ==
    [threads |-> [t \in DOMAIN ts |->
                     IF t \in W THEN [ts[t] EXCEPT !.state = "Ready"]
                     ELSE ts[t]],
     queue |-> q \o InOrder(W)]

\* The threads blocked on a hub that has events.
Posted(ts, hs) ==
    {t \in DOMAIN ts : /\ ts[t].state = "Blocked"
                       /\ hs[ts[t].wait.hub] # <<>>}

\* The threads blocked with a deadline that has passed at `time`.
Expired(ts, time) ==
    {t \in DOMAIN ts : /\ ts[t].state = "Blocked"
                       /\ ts[t].wait.deadline # NoDeadline
                       /\ ts[t].wait.deadline <= time}

\* schedule(): a current thread that is still Running goes back to the
\* ready queue; the head of the ready queue becomes the current thread;
\* with an empty queue the CPU idles.
schedule(ts, q, current) ==
    LET preempted == current # 0 /\ ts[current].state = "Running"
        ts1 == IF preempted THEN [ts EXCEPT ![current].state = "Ready"]
               ELSE ts
        q1 == IF preempted THEN Append(q, current) ELSE q
    IN IF q1 = <<>>
       THEN [threads |-> ts1, queue |-> q1, current |-> 0]
       ELSE [threads |-> [ts1 EXCEPT ![Head(q1)].state = "Running"],
             queue |-> Tail(q1), current |-> Head(q1)]

(***************************************************************************)
(* WaitForEvents.                                                          *)
(***************************************************************************)
\* Take up to maxItems events off the front of a hub's queue.
dequeueEvents(queue, maxItems) ==
    LET n == IF maxItems <= 0 THEN 0
             ELSE IF Len(queue) < maxItems THEN Len(queue) ELSE maxItems
    IN [events |-> SubSeq(queue, 1, n),
        rest |-> SubSeq(queue, n + 1, Len(queue))]

WaitEffects(error, hs, mem, events, wait) ==
    [error |-> error, hubs |-> hs, userMem |-> mem, events |-> events,
     wait |-> wait]

\* The wait as the thread finds it when it looks at the hub: events are
\* drained into the user's buffer; without events the call returns when it
\* may not wait (any more), and otherwise the thread waits.
waitForEvents(wait, immediate) ==
    IF hubs[wait.hub] # <<>>
    THEN LET d == dequeueEvents(hubs[wait.hub], wait.maxItems)
         IN WaitEffects("Ok", [hubs EXCEPT ![wait.hub] = d.rest],
                        copyToUser(userMem, wait.buffer, d.events),
                        d.events, NoWait)
    ELSE IF immediate
              \/ (wait.deadline # NoDeadline /\ wait.deadline <= now)
    THEN WaitEffects("Ok", hubs, userMem, <<>>, NoWait)
    ELSE WaitEffects("Ok", hubs, userMem, <<>>, wait)

\* helWaitForEvents as entered from the dispatcher.
helWaitForEvents(call) ==
    LET d == getDescriptor(TheUniverse, call.hubHandle)
    IN IF d = NullDescriptor
       THEN WaitEffects("IllegalHandle", hubs, userMem, <<>>, NoWait)
       ELSE IF d.type # "EventHub"
       THEN WaitEffects("BadDescriptor", hubs, userMem, <<>>, NoWait)
       ELSE waitForEvents(
                [hub |-> d.obj, buffer |-> call.buffer,
                 maxItems |-> call.maxItems,
                 deadline |-> IF call.maxTime < 0 THEN NoDeadline
                              ELSE now + call.maxTime,
                 since |-> now, call |-> call.words],
                call.maxTime = 0)

\* helCreateThread: a new thread of the caller's universe, Ready, and its
\* descriptor.
helCreateThread ==
    LET r == attachDescriptor(TheUniverse,
                              AnyDescriptor("Thread", Len(threads) + 1))
    IN [error |-> "Ok", u |-> r.u, handle |-> r.handle,
        threads |-> [t \in 1..(Len(threads) + 1) |->
                        IF t <= Len(threads) THEN threads[t] ELSE NewThread],
        queue |-> Append(scheduleQueue, Len(threads) + 1)]

(***************************************************************************)
(* thorSyscall: how each case of the dispatcher hands the argument words   *)
(* arg0..arg8 (here a[1]..a[9]) to its Hel operation.                      *)
(***************************************************************************)
SendStringArgs_TagsSwapped(a) ==
    [handle |-> a[1], buffer |-> a[2], length |-> a[3],
     msgRequest |-> a[5], msgSeq |-> a[4]]

SendStringArgs(a) ==
    [handle |-> a[1], buffer |-> a[2], length |-> a[3],
     msgRequest |-> a[4], msgSeq |-> a[5]]

SubmitRecvStringArgs_FilterShifted(a) ==
    [handle |-> a[1], hubHandle |-> a[2], buffer |-> a[3],
     maxLength |-> a[4], filterRequest |-> a[4], filterSeq |-> a[5],
     asyncId |-> a[7], submitFunction |-> a[8], submitObject |-> a[9]]

SubmitRecvStringArgs_IdShifted(a) ==
    [handle |-> a[1], hubHandle |-> a[2], buffer |-> a[3],
     maxLength |-> a[4], filterRequest |-> a[5], filterSeq |-> a[6],
     asyncId |-> a[8], submitFunction |-> a[9], submitObject |-> a[9]]

SubmitRecvStringArgs(a) ==
    [handle |-> a[1], hubHandle |-> a[2], buffer |-> a[3],
     maxLength |-> a[4], filterRequest |-> a[5], filterSeq |-> a[6],
     asyncId |-> a[7], submitFunction |-> a[8], submitObject |-> a[9]]

\* (a variant that takes the async id from the next argument word)
SubmitAcceptArgs_IdShifted(a) ==
    [handle |-> a[1], hubHandle |-> a[2], asyncId |-> a[4],
     submitFunction |-> a[4], submitObject |-> a[5]]

SubmitAcceptArgs(a) ==
    [handle |-> a[1], hubHandle |-> a[2], asyncId |-> a[3],
     submitFunction |-> a[4], submitObject |-> a[5]]

SubmitConnectArgs(a) ==
    [handle |-> a[1], hubHandle |-> a[2], asyncId |-> a[3],
     submitFunction |-> a[4], submitObject |-> a[5]]

\* (variants that take the capacity, or the timeout, from the other's word)
WaitForEventsArgs_CapFromTime(a) ==
    [hubHandle |-> a[1], buffer |-> a[2], maxItems |-> a[4],
     maxTime |-> a[4], words |-> a]

WaitForEventsArgs_TimeFromCap(a) ==
    [hubHandle |-> a[1], buffer |-> a[2], maxItems |-> a[3],
     maxTime |-> a[3], words |-> a]

WaitForEventsArgs(a) ==
    [hubHandle |-> a[1], buffer |-> a[2], maxItems |-> a[3],
     maxTime |-> a[4], words |-> a]

SubmitWaitForIrqArgs_IdShifted(a) ==
    [handle |-> a[1], hubHandle |-> a[2], asyncId |-> a[4],
     submitFunction |-> a[4], submitObject |-> a[5]]

SubmitWaitForIrqArgs(a) ==
    [handle |-> a[1], hubHandle |-> a[2], asyncId |-> a[3],
     submitFunction |-> a[4], submitObject |-> a[5]]

vars ==
    <<descriptorMap, nextHandle, panicked, attached, detached, issued, lastOp,
      pipes, hubs, servers, userMem, ret, currentThread, threads,
      scheduleQueue, now, sendLog, recvLog, completions, acceptLog,
      connectLog, rendezvous, posted, delivered, lastCall, extVars>>

kernelVars ==
    <<pipes, hubs, servers, userMem, ret, currentThread, threads,
      scheduleQueue, now, sendLog, recvLog, completions, acceptLog,
      connectLog, rendezvous, posted, delivered, lastCall, extVars>>

(***************************************************************************)
(* SpecUniverse: the three Universe operations called directly, in any     *)
(* order, with any descriptor, any handle value and any guard.             *)
(***************************************************************************)
\* Descriptors and handle values the callers pass.
Descriptors ==
    {AnyDescriptor("MemoryAccess", 1), AnyDescriptor("BiDirectionFirst", 1),
     AnyDescriptor("EventHub", 2)}

HandleValues == 0..(MaxHandle + 1)

Guards == {"universe", "other"}

Live(h) == h \in (DOMAIN attached) \ detached

InitUniverse ==
    /\ descriptorMap = NewUniverse.map
    /\ nextHandle = NewUniverse.next
    /\ panicked = FALSE
    /\ attached = <<>>
    /\ detached = {}
    /\ issued = <<>>
    /\ lastOp = [op |-> "none", handle |-> 0, result |-> NullDescriptor]
    /\ pipes = <<>>
    /\ hubs = <<>>
    /\ servers = <<>>
    /\ userMem = <<>>
    /\ ret = <<>>
    /\ currentThread = 0
    /\ threads = <<>>
    /\ scheduleQueue = <<>>
    /\ now = 0
    /\ sendLog = <<>>
    /\ recvLog = <<>>
    /\ completions = <<>>
    /\ acceptLog = <<>>
    /\ connectLog = <<>>
    /\ rendezvous = <<>>
    /\ posted = <<>>
    /\ delivered = <<>>
    /\ lastCall = NoCall
    /\ InitExt

\* assert(guard.protects(&lock)) failed: friggPanic() halts the kernel.
AssertFails(guard) ==
    /\ ~GuardProtects(guard)
    /\ panicked' = TRUE
    /\ UNCHANGED <<descriptorMap, nextHandle, historyVars, kernelVars>>

Attach(guard, descriptor) ==
    /\ ~panicked
    /\ nextHandle <= MaxHandle
    /\ \/ AssertFails(guard)
       \/ /\ GuardProtects(guard)
          /\ LET r == attachDescriptor(TheUniverse, descriptor)
             IN /\ descriptorMap' = r.u.map
                /\ nextHandle' = r.u.next
                /\ attached' = [h \in (DOMAIN attached) \cup {r.handle} |->
                                   IF h = r.handle THEN descriptor
                                   ELSE attached[h]]
                /\ detached' = detached \ {r.handle}
                /\ issued' = Append(issued, r.handle)
                /\ lastOp' = [op |-> "attach", handle |-> r.handle,
                              result |-> descriptor]
          /\ UNCHANGED <<panicked, kernelVars>>

Get(guard, handle) ==
    /\ ~panicked
    /\ \/ AssertFails(guard)
       \/ /\ GuardProtects(guard)
          /\ lastOp' = [op |-> "get", handle |-> handle,
                        result |-> getDescriptor(TheUniverse, handle)]
          /\ UNCHANGED <<universeVars, attached, detached, issued, kernelVars>>

Detach(guard, handle) ==
    /\ ~panicked
    /\ \/ AssertFails(guard)
       \/ /\ GuardProtects(guard)
          /\ LET r == detachDescriptor(TheUniverse, handle)
             IN /\ descriptorMap' = r.u.map
                /\ nextHandle' = r.u.next
                /\ detached' = IF handle \in DOMAIN attached
                               THEN detached \cup {handle} ELSE detached
                /\ lastOp' = [op |-> "detach", handle |-> handle,
                              result |-> r.result]
          /\ UNCHANGED <<panicked, attached, issued, kernelVars>>

NextUniverse ==
    \/ \E g \in Guards, d \in Descriptors : Attach(g, d)
    \/ \E g \in Guards, h \in HandleValues : Get(g, h)
    \/ \E g \in Guards, h \in HandleValues : Detach(g, h)

SpecUniverse == InitUniverse /\ [][NextUniverse]_vars

(***************************************************************************)
(* Claims about the Universe.                                              *)
(***************************************************************************)
\* getDescriptor(h) is the descriptor attached under h when h is live
\* (returned by an attach and not detached since), and null otherwise.
GetConsistent ==
    \A h \in HandleValues :
        getDescriptor(TheUniverse, h) =
            IF Live(h) THEN attached[h] ELSE NullDescriptor

\* C1: for any sequence of attachDescriptor/detachDescriptor calls on one
\* Universe, getDescriptor(h) returns the descriptor attached under h iff h
\* was returned by an attach and not detached since; detachDescriptor(h) on a
\* live h returns that descriptor and makes h non-live; getDescriptor and
\* detachDescriptor on a non-live h (0 included) return null/empty and leave
\* the table unchanged.
C1_GetDetachFollowLiveness ==
    [][/\ GetConsistent'
       /\ (lastOp' # lastOp /\ lastOp'.op = "get") =>
             /\ lastOp'.result =
                   IF Live(lastOp'.handle) THEN attached[lastOp'.handle]
                   ELSE NullDescriptor
             /\ descriptorMap' = descriptorMap
       /\ (lastOp' # lastOp /\ lastOp'.op = "detach") =>
             IF Live(lastOp'.handle)
             THEN /\ lastOp'.result = attached[lastOp'.handle]
                  /\ lastOp'.handle \in detached'
                  /\ lastOp'.handle \notin DOMAIN descriptorMap'
             ELSE /\ lastOp'.result = NullDescriptor
                  /\ descriptorMap' = descriptorMap]_vars

\* C1 witness: a live handle was detached and returned its descriptor while
\* another handle stays live, and handle 0 is not live.
C1_Witness ==
    /\ lastOp.op = "detach"
    /\ lastOp.result # NullDescriptor
    /\ lastOp.handle \in detached
    /\ \E h \in DOMAIN descriptorMap : h # lastOp.handle /\ Live(h)
    /\ ~Live(0)

\* C2: within one Universe the handles returned by attachDescriptor start at
\* 1, are never 0, and each is strictly greater than every handle returned
\* earlier, whatever detaches happen in between; a detached handle value is
\* never issued again.
C2_HandlesStrictlyIncrease ==
    /\ issued # <<>> => issued[1] = 1
    /\ \A i \in DOMAIN issued : issued[i] # 0
    /\ \A i, j \in DOMAIN issued : i < j => issued[i] < issued[j]
    /\ \A h \in detached : h \notin DOMAIN descriptorMap

\* C2 witness: a handle was attached after an earlier handle was detached.
C2_Witness ==
    /\ Len(issued) >= 3
    /\ \E h \in detached : h < issued[Len(issued)]
    /\ lastOp.op = "attach"

(***************************************************************************)
(* The syscalls.  A syscall is entered by the Running thread with the      *)
(* argument words a; the action is the dispatcher's case with the Hel      *)
(* operation it calls and the trap return of the result words.             *)
(***************************************************************************)
Args(words) == words \o [i \in 1..(9 - Len(words)) |-> 0]

\* The current thread runs in user mode.
CanSyscall ==
    /\ ~panicked
    /\ currentThread # 0
    /\ threads[currentThread].state = "Running"
    /\ threads[currentThread].wait = NoWait

\* thorRtReturnSyscall1/2/3: the result words go back to the caller.
ReturnSyscall(words) == ret' = [ret EXCEPT ![currentThread] = words]

\* The universe after a syscall, with the history of what it attached.
SetUniverse(u, handles) ==
    /\ descriptorMap' = u.map
    /\ nextHandle' = u.next
    /\ attached' = [h \in (DOMAIN attached) \cup {handles[i] : i \in DOMAIN handles}
                       |-> IF h \in DOMAIN attached /\ h \notin DOMAIN u.map
                           THEN attached[h]
                           ELSE IF h \in DOMAIN u.map THEN u.map[h]
                           ELSE attached[h]]
    /\ issued' = issued \o handles

NoteCall(index, handles) ==
    lastCall' = [index |-> index,
                 closedArg |-> \E h \in handles : h \in detached]

\* The threads that wait on a hub that got events become Ready.
WakeWaiters(hs) ==
    /\ threads' = unblock(threads, scheduleQueue, Posted(threads, hs)).threads
    /\ scheduleQueue' =
           unblock(threads, scheduleQueue, Posted(threads, hs)).queue

SysCloseDescriptor(a) ==
    /\ CanSyscall
    /\ LET r == helCloseDescriptor(a[1])
       IN /\ SetUniverse(r.u, <<>>)
          /\ detached' = IF r.error = "Ok" THEN detached \cup {a[1]}
                         ELSE detached
          /\ pipes' = r.pipes
          /\ servers' = r.servers
          /\ irqRelays' = r.relays
          /\ hubs' = r.hubs
          /\ posted' = posted \o r.posts
          /\ WakeWaiters(r.hubs)
          /\ ReturnSyscall(<<r.error>>)
    /\ NoteCall("CloseDescriptor", {a[1]})
    /\ UNCHANGED <<asyncVars, spaceVars, machineVars, irqTrace, irqSubs, irqFiredAt, panicked,
                   lastOp,
                   userMem, currentThread, now, ipcHistoryVars,
                   serverHistoryVars, delivered>>

SysCreateEventHub ==
    /\ CanSyscall
    /\ nextHandle <= MaxHandle
    /\ LET r == helCreateEventHub
       IN /\ SetUniverse(r.u, <<r.handle>>)
          /\ hubs' = r.hubs
          /\ ReturnSyscall(<<r.error, r.handle>>)
    /\ NoteCall("CreateEventHub", {})
    /\ UNCHANGED <<extVars, panicked, detached, lastOp, pipes, servers, userMem,
                   threadVars, ipcHistoryVars,
                   serverHistoryVars, hubHistoryVars>>

SysCreateBiDirectionPipe ==
    /\ CanSyscall
    /\ nextHandle + 1 <= MaxHandle
    /\ LET r == helCreateBiDirectionPipe
       IN /\ SetUniverse(r.u, <<r.first, r.second>>)
          /\ pipes' = r.pipes
          /\ ReturnSyscall(<<r.error, r.first, r.second>>)
    /\ NoteCall("CreateBiDirectionPipe", {})
    /\ UNCHANGED <<extVars, panicked, detached, lastOp, hubs, servers, userMem,
                   threadVars, ipcHistoryVars,
                   serverHistoryVars, hubHistoryVars>>

SetObjects(r) ==
    /\ pipes' = r.pipes
    /\ hubs' = r.hubs
    /\ userMem' = r.userMem
    /\ completions' = completions \o r.done
    /\ posted' = posted \o [i \in DOMAIN r.done |->
                                [hub |-> r.done[i].recv.hub,
                                 event |-> r.done[i].event]]
    /\ WakeWaiters(r.hubs)

SysSendString(a) ==
    /\ CanSyscall
    /\ LET r == helSendString(SendStringArgs(a))
       IN /\ SetObjects(r)
          /\ sendLog' = IF r.error = "Ok" THEN Append(sendLog, a) ELSE sendLog
          /\ ReturnSyscall(<<r.error>>)
    /\ NoteCall("SendString", {a[1]})
    /\ UNCHANGED <<extVars, universeVars, historyVars, servers, currentThread, now,
                   recvLog, serverHistoryVars, delivered>>

SysSubmitRecvString(a) ==
    /\ CanSyscall
    /\ LET r == helSubmitRecvString(SubmitRecvStringArgs(a))
       IN /\ SetObjects(r)
          /\ recvLog' = IF r.error = "Ok" THEN Append(recvLog, a) ELSE recvLog
          /\ ReturnSyscall(<<r.error>>)
    /\ NoteCall("SubmitRecvString", {a[1], a[2]})
    /\ UNCHANGED <<extVars, universeVars, historyVars, servers, currentThread, now,
                   sendLog, serverHistoryVars, delivered>>

\* The current thread leaves the CPU: it is Blocked with `wait`, and
\* schedule() picks the next thread.
BlockAndSchedule(wait) ==
    LET ts == [threads EXCEPT ![currentThread] =
                   [state |-> "Blocked", wait |-> wait]]
        next == schedule(ts, scheduleQueue, currentThread)
    IN /\ threads' = next.threads
       /\ scheduleQueue' = next.queue
       /\ currentThread' = next.current

\* WaitForEvents returns to the current thread with the events of r.
ReturnEvents(r, a, blocked) ==
    /\ hubs' = r.hubs
    /\ userMem' = r.userMem
    /\ ReturnSyscall(<<r.error, Len(r.events)>>)
    /\ delivered' = IF r.error = "Ok"
                    THEN Append(delivered,
                                [thread |-> currentThread, call |-> a,
                                 events |-> r.events, blocked |-> blocked])
                    ELSE delivered

SysWaitForEvents(a) ==
    /\ CanSyscall
    /\ LET r == helWaitForEvents(WaitForEventsArgs(a))
       IN IF r.wait = NoWait
          THEN /\ ReturnEvents(r, a, FALSE)
               /\ UNCHANGED <<currentThread, threads, scheduleQueue>>
          ELSE /\ BlockAndSchedule(r.wait)
               /\ UNCHANGED <<hubs, userMem, ret, delivered>>
    /\ NoteCall("WaitForEvents", {a[1]})
    /\ UNCHANGED <<extVars, universeVars, historyVars, pipes, servers, now,
                   ipcHistoryVars, serverHistoryVars, posted>>

\* A thread that blocked in WaitForEvents has been switched to: it looks at
\* the hub again, and returns or blocks again.
WaitForEventsResume ==
    /\ ~panicked
    /\ currentThread # 0
    /\ threads[currentThread].state = "Running"
    /\ threads[currentThread].wait # NoWait
    /\ LET wait == threads[currentThread].wait
           r == waitForEvents(wait, FALSE)
       IN IF r.wait = NoWait
          THEN /\ ReturnEvents(r, wait.call, TRUE)
               /\ threads' = [threads EXCEPT ![currentThread].wait = NoWait]
               /\ UNCHANGED <<currentThread, scheduleQueue>>
          ELSE /\ BlockAndSchedule(r.wait)
               /\ UNCHANGED <<hubs, userMem, ret, delivered>>
    /\ lastCall' = [index |-> "WaitForEventsResume", closedArg |-> FALSE]
    /\ UNCHANGED <<extVars, universeVars, historyVars, pipes, servers, now,
                   ipcHistoryVars, serverHistoryVars, posted>>

\* thorIrq(irq): the controller is acknowledged, relay irq fires (the
\* threads that wait on a hub it posts to become Ready), and then the
\* timer interrupt (irq 0) enters schedule(), which preempts the current
\* thread, while any other interrupt returns to the interrupted context.
\* The timer interrupt is also what advances the clock (counted up to
\* MaxTime) and ends the waits whose deadline has passed.  The kernel
\* itself is not interrupted.
\* if(irq == 0) schedule(); else thorRtFullReturn();
IrqEntersSchedule_Never(irq) == FALSE

IrqEntersSchedule_Always(irq) == TRUE

IrqEntersSchedule(irq) == irq = 0

thorIrq(irq) ==
    /\ ~panicked
    /\ IF currentThread = 0 THEN TRUE
       ELSE threads[currentThread].wait = NoWait
    /\ LET fired == IrqRelay_fire(irqRelays[irq], hubs)
           time == IF irq = 0 /\ now < MaxTime THEN now + 1 ELSE now
           woken == unblock(threads, scheduleQueue,
                            Posted(threads, fired.hubs)
                                \cup (IF irq = 0 THEN Expired(threads, time)
                                      ELSE {}))
           next == IF IrqEntersSchedule(irq)
                   THEN schedule(woken.threads, woken.queue, currentThread)
                   ELSE [threads |-> woken.threads, queue |-> woken.queue,
                         current |-> currentThread]
       IN /\ irqTrace' =
                 <<[step |-> "acknowledge", irq |-> irq],
                   [step |-> "fire", irq |-> irq],
                   [step |-> IF IrqEntersSchedule(irq) THEN "schedule"
                             ELSE "fullReturn",
                    irq |-> irq]>>
          /\ irqRelays' = [irqRelays EXCEPT ![irq] = fired.relay]
          /\ irqFiredAt' = [irqFiredAt EXCEPT ![irq] = Len(irqSubs)]
          /\ hubs' = fired.hubs
          /\ posted' = posted \o fired.posts
          /\ now' = time
          /\ threads' = next.threads
          /\ scheduleQueue' = next.queue
          /\ currentThread' = next.current
    /\ lastCall' = [index |-> "Irq", closedArg |-> FALSE]
    /\ UNCHANGED <<asyncVars, spaceVars, machineVars, irqSubs, universeVars, historyVars, pipes,
                   servers, userMem, ret, ipcHistoryVars, serverHistoryVars,
                   delivered>>

\* schedule() with an empty ready queue halts with interrupts enabled and
\* retries after a wake-up: once the queue has a thread, its head runs.
IdleWake ==
    /\ ~panicked
    /\ currentThread = 0
    /\ scheduleQueue # <<>>
    /\ LET next == schedule(threads, scheduleQueue, currentThread)
       IN /\ threads' = next.threads
          /\ scheduleQueue' = next.queue
          /\ currentThread' = next.current
    /\ lastCall' = [index |-> "IdleWake", closedArg |-> FALSE]
    /\ UNCHANGED <<extVars, universeVars, historyVars, objectVars, ret, now,
                   ipcHistoryVars, serverHistoryVars, hubHistoryVars>>

\* kHelCallAccessIrq.  (int)arg0 keeps every vector the model passes.
SysAccessIrq(a) ==
    /\ CanSyscall
    /\ LET r == helAccessIrq(a[1])
       IN /\ SetUniverse(r.u, IF r.error = "Ok" THEN <<r.handle>> ELSE <<>>)
          /\ ReturnSyscall(<<r.error, r.handle>>)
    /\ NoteCall("AccessIrq", {})
    /\ UNCHANGED <<extVars, panicked, detached, lastOp, objectVars,
                   threadVars, ipcHistoryVars, serverHistoryVars,
                   hubHistoryVars>>

\* kHelCallSubmitWaitForIrq.
SysSubmitWaitForIrq(a) ==
    /\ CanSyscall
    /\ LET r == helSubmitWaitForIrq(SubmitWaitForIrqArgs(a))
       IN /\ irqRelays' = r.relays
          /\ irqSubs' = IF r.error = "Ok" THEN Append(irqSubs, a) ELSE irqSubs
          /\ ReturnSyscall(<<r.error>>)
    /\ NoteCall("SubmitWaitForIrq", {a[1], a[2]})
    /\ UNCHANGED <<asyncVars, spaceVars, machineVars, irqTrace, irqFiredAt, universeVars,
                   historyVars, objectVars, threadVars, ipcHistoryVars,
                   serverHistoryVars, hubHistoryVars>>

SysCreateThread(a) ==
    /\ CanSyscall
    /\ LET r == helCreateThread
       IN /\ SetUniverse(r.u, <<r.handle>>)
          /\ threads' = r.threads
          /\ scheduleQueue' = r.queue
          /\ ret' = Append([ret EXCEPT ![currentThread] =
                                <<r.error, r.handle>>], <<>>)
    /\ NoteCall("CreateThread", {})
    /\ UNCHANGED <<extVars, panicked, detached, lastOp, objectVars, currentThread,
                   now, ipcHistoryVars, serverHistoryVars, hubHistoryVars>>

SysCreateServer ==
    /\ CanSyscall
    /\ LET r == helCreateServer
       IN /\ SetUniverse(r.u, <<r.server, r.client>>)
          /\ servers' = r.servers
          /\ ReturnSyscall(<<r.error, r.server, r.client>>)
    /\ NoteCall("CreateServer", {})
    /\ UNCHANGED <<extVars, panicked, detached, lastOp, pipes, hubs, userMem,
                   threadVars, ipcHistoryVars, serverHistoryVars,
                   hubHistoryVars>>

SetServerObjects(r) ==
    /\ SetUniverse(r.u, r.handles)
    /\ servers' = r.servers
    /\ pipes' = r.pipes
    /\ hubs' = r.hubs
    /\ rendezvous' = rendezvous \o r.pairs
    /\ posted' = posted \o r.posts
    /\ WakeWaiters(r.hubs)

SysSubmitAccept(a, choice) ==
    /\ CanSyscall
    /\ LET r == helSubmitAccept(SubmitAcceptArgs(a), choice)
       IN /\ SetServerObjects(r)
          /\ acceptLog' = IF r.error = "Ok" THEN Append(acceptLog, a)
                          ELSE acceptLog
          /\ ReturnSyscall(<<r.error>>)
    /\ NoteCall("SubmitAccept", {a[1], a[2]})
    /\ UNCHANGED <<extVars, panicked, detached, lastOp, userMem, currentThread, now,
                   ipcHistoryVars, connectLog, delivered>>

SysSubmitConnect(a, choice) ==
    /\ CanSyscall
    /\ LET r == helSubmitConnect(SubmitConnectArgs(a), choice)
       IN /\ SetServerObjects(r)
          /\ connectLog' = IF r.error = "Ok" THEN Append(connectLog, a)
                           ELSE connectLog
          /\ ReturnSyscall(<<r.error>>)
    /\ NoteCall("SubmitConnect", {a[1], a[2]})
    /\ UNCHANGED <<extVars, panicked, detached, lastOp, userMem, currentThread, now,
                   ipcHistoryVars, acceptLog, delivered>>

(***************************************************************************)
(* The state the init thread starts in: thorMain has attached the program  *)
(* image as handle 1 of the one Universe and schedule() has made the init  *)
(* thread Running.  User memory holds two payload buffers and the (zeroed) *)
(* receive buffers.                                                        *)
(***************************************************************************)
RecvBuffer(k) == 10 + k

RecvBufferSize == 3

\* The buffer thread t passes to WaitForEvents, and the events it holds.
EventBuffer(t) == 20 + t

EventBufferSize == 2

NoEvent == UserEvent("None", "Ok", SubmitInfo(0, 0, 0), 0, 0, 0, 0)

UserMemory ==
    [b \in {1, 2} \cup {RecvBuffer(k) : k \in 1..MaxCalls}
                  \cup {EventBuffer(t) : t \in 1..MaxThreads} |->
        IF b = 1 THEN <<7, 8, 9>>
        ELSE IF b = 2 THEN <<5, 6>>
        ELSE IF b \in {EventBuffer(t) : t \in 1..MaxThreads}
        THEN [i \in 1..EventBufferSize |-> NoEvent]
        ELSE [i \in 1..RecvBufferSize |-> 0]]

InitBoot ==
    /\ descriptorMap = attachDescriptor(NewUniverse,
                           AnyDescriptor("MemoryAccess", 1)).u.map
    /\ nextHandle = attachDescriptor(NewUniverse,
                        AnyDescriptor("MemoryAccess", 1)).u.next
    /\ panicked = FALSE
    /\ attached = descriptorMap
    /\ detached = {}
    /\ issued = <<attachDescriptor(NewUniverse,
                      AnyDescriptor("MemoryAccess", 1)).handle>>
    /\ lastOp = [op |-> "none", handle |-> 0, result |-> NullDescriptor]
    /\ pipes = <<>>
    /\ hubs = <<>>
    /\ servers = <<>>
    /\ userMem = UserMemory
    /\ ret = <<<<>>>>
    /\ currentThread = 1
    /\ threads = <<[state |-> "Running", wait |-> NoWait]>>
    /\ scheduleQueue = <<>>
    /\ now = 0
    /\ sendLog = <<>>
    /\ recvLog = <<>>
    /\ completions = <<>>
    /\ acceptLog = <<>>
    /\ connectLog = <<>>
    /\ rendezvous = <<>>
    /\ posted = <<>>
    /\ delivered = <<>>
    /\ lastCall = NoCall
    /\ InitExt

(***************************************************************************)
(* The inputs of the syscalls.                                             *)
(***************************************************************************)
\* Handle words a caller passes: every handle issued so far.
HandleArgs == 1..(nextHandle - 1)

\* Hub handle words a caller passes: every hub handle issued so far.
HubArgs == {h \in HandleArgs : attached[h].type = "EventHub"}

\* (buffer, length, msg_request, msg_seq) of the SendString calls.
SendShapes == {<<1, 2, 0, 0>>, <<1, 3, 1, 0>>, <<2, 1, 0, 1>>}

\* (length, filter_request, filter_seq) of the SubmitRecvString calls.
RecvShapes ==
    {<<3, kHelAnyRequest, kHelAnySequence>>,
     <<1, kHelAnyRequest, kHelAnySequence>>,
     <<2, 1, kHelAnySequence>>, <<2, kHelAnyRequest, 1>>}

\* The async id, submit function and submit object of the k-th submit.
AsyncIdOf(k) == 6 + k

SubmitFunction == 20

SubmitObject == 30

Calls == Len(sendLog) + Len(recvLog)

SendStringCall(h, m) ==
    /\ Calls < MaxCalls
    /\ SysSendString(Args(<<h>> \o m))

SubmitRecvStringCall(h, hh, r) ==
    /\ Calls < MaxCalls
    /\ SysSubmitRecvString(
           Args(<<h, hh, RecvBuffer(Len(recvLog) + 1)>> \o r \o
                <<AsyncIdOf(Len(recvLog) + 1), SubmitFunction,
                  SubmitObject>>))

Submits == Len(acceptLog) + Len(connectLog)

SubmitWords(h, hh) ==
    Args(<<h, hh, AsyncIdOf(Submits + 1), SubmitFunction, SubmitObject>>)

SubmitAcceptCall(h, hh) ==
    /\ Submits < MaxCalls
    /\ \E choice \in RendezvousChoices :
          SysSubmitAccept(SubmitWords(h, hh), choice)

SubmitConnectCall(h, hh) ==
    /\ Submits < MaxCalls
    /\ \E choice \in RendezvousChoices :
          SysSubmitConnect(SubmitWords(h, hh), choice)

\* The WaitForEvents calls entered and not yet returned, plus the returned.
Waits ==
    Len(delivered) + Cardinality({t \in DOMAIN threads :
                                     threads[t].wait # NoWait})

WaitForEventsCall(h, cap, ns) ==
    /\ Waits < MaxWaits
    /\ SysWaitForEvents(Args(<<h, EventBuffer(currentThread), cap, ns>>))

(***************************************************************************)
(* SpecClose: from boot, the init thread creates pipes and hubs, closes    *)
(* descriptors and calls the handle-taking syscalls with any handle word.  *)
(***************************************************************************)
\* (one accepted call is enough here: the refused calls are what this
\* specification is about)
NoneAccepted == Calls = 0 /\ Submits = 0 /\ delivered = <<>>

NextClose ==
    \/ SysCreateBiDirectionPipe
    \/ SysCreateEventHub
    \/ /\ Len(servers) < MaxServers
       /\ nextHandle + 1 <= MaxHandle
       /\ SysCreateServer
    \/ \E h \in HandleArgs : SysCloseDescriptor(Args(<<h>>))
    \/ \E h \in HandleArgs :
          NoneAccepted /\ SendStringCall(h, <<1, 2, 0, 0>>)
    \/ \E h \in HandleArgs, hh \in HubArgs :
          /\ NoneAccepted
          /\ SubmitRecvStringCall(h, hh, <<3, kHelAnyRequest, kHelAnySequence>>)
    \/ \E h \in HandleArgs :
          NoneAccepted /\ WaitForEventsCall(h, 1, 0)
    \/ \E h \in HandleArgs, hh \in HubArgs :
          NoneAccepted /\ SubmitAcceptCall(h, hh)
    \/ \E h \in HandleArgs, hh \in HubArgs :
          NoneAccepted /\ SubmitConnectCall(h, hh)

SpecClose == InitBoot /\ [][NextClose]_vars

(***************************************************************************)
(* SpecIpc: one pipe and one hub exist (the init thread has called         *)
(* CreateBiDirectionPipe and CreateEventHub); it sends and submits         *)
(* receives through both ends of the pipe, in any order.                   *)
(***************************************************************************)
InitPipe ==
    /\ descriptorMap = <<AnyDescriptor("MemoryAccess", 1),
                         AnyDescriptor("BiDirectionFirst", 1),
                         AnyDescriptor("BiDirectionSecond", 1),
                         AnyDescriptor("EventHub", 1)>>
    /\ nextHandle = 5
    /\ panicked = FALSE
    /\ attached = descriptorMap
    /\ detached = {}
    /\ issued = <<1, 2, 3, 4>>
    /\ lastOp = [op |-> "none", handle |-> 0, result |-> NullDescriptor]
    /\ pipes = <<NewBiDirectionPipe>>
    /\ hubs = <<<<>>>>
    /\ servers = <<>>
    /\ userMem = UserMemory
    /\ ret = <<<<"Ok", 4>>>>
    /\ currentThread = 1
    /\ threads = <<[state |-> "Running", wait |-> NoWait]>>
    /\ scheduleQueue = <<>>
    /\ now = 0
    /\ sendLog = <<>>
    /\ recvLog = <<>>
    /\ completions = <<>>
    /\ acceptLog = <<>>
    /\ connectLog = <<>>
    /\ rendezvous = <<>>
    /\ posted = <<>>
    /\ delivered = <<>>
    /\ lastCall = [index |-> "CreateEventHub", closedArg |-> FALSE]
    /\ InitExt

PipeHandles == {2, 3}

NextIpc ==
    \/ \E h \in PipeHandles, m \in SendShapes : SendStringCall(h, m)
    \/ \E h \in PipeHandles, r \in RecvShapes : SubmitRecvStringCall(h, 4, r)

SpecIpc == InitPipe /\ [][NextIpc]_vars

(***************************************************************************)
(* Claims about closing descriptors and about channels.                    *)
(***************************************************************************)
\* C3: after CloseDescriptor(h) succeeded, every later syscall that takes h
\* as a handle argument returns IllegalHandle and performs no operation on
\* any object.
C3_ClosedHandleIsIllegal ==
    [][lastCall'.closedArg =>
          /\ ret'[currentThread][1] = "IllegalHandle"
          /\ UNCHANGED <<descriptorMap, nextHandle, objectVars, threadVars,
                         ipcHistoryVars, serverHistoryVars, posted>>]_vars

\* C3 witness: SendString through a closed First handle was refused while the
\* pipe it named is still open through its Second descriptor.
C3_Witness ==
    /\ lastCall.index = "SendString"
    /\ lastCall.closedArg
    /\ ret[currentThread] = <<"IllegalHandle">>
    /\ \E h \in detached, g \in DOMAIN descriptorMap :
          /\ attached[h].type = "BiDirectionFirst"
          /\ descriptorMap[g] = AnyDescriptor("BiDirectionSecond", attached[h].obj)

\* The channels, and what the callers passed for a message or a receive.
ChannelIds == {<<p, side>> : p \in DOMAIN pipes, side \in {"first", "second"}}

ChannelOf(c) == pipes[c[1]][c[2]]

CompletionsOn(c) ==
    LET On(e) == e.pipe = c[1] /\ e.side = c[2]
    IN SelectSeq(completions, On)

SeqRange(q) == {q[i] : i \in DOMAIN q}

\* Every receive submitted on channel c so far passed wildcard filters.
AllWildcard(c) ==
    \A r \in SeqRange(ChannelOf(c).recvs) \cup
             {e.recv : e \in SeqRange(CompletionsOn(c))} :
        /\ recvLog[r.rno][5] = kHelAnyRequest
        /\ recvLog[r.rno][6] = kHelAnySequence

\* C4: for any interleaving of sends and submit_recvs on one channel whose
\* receives all pass wildcard filters, the i-th receive completion carries the
\* i-th message sent: completions are in send order (and in submit order of
\* the receives), nothing is skipped, duplicated or reordered, and what is
\* still pending was sent after everything delivered.
C4_CompletionsInSendOrder ==
    \A c \in ChannelIds :
        AllWildcard(c) =>
            LET cs == CompletionsOn(c)
                ms == ChannelOf(c).messages
            IN /\ \A i, j \in DOMAIN cs :
                     i < j => /\ cs[i].message.sno < cs[j].message.sno
                              /\ cs[i].recv.rno < cs[j].recv.rno
               /\ \A i \in DOMAIN cs, k \in DOMAIN ms :
                     cs[i].message.sno < ms[k].sno
               /\ \A k, l \in DOMAIN ms : k < l => ms[k].sno < ms[l].sno
               /\ ms # <<>> => ChannelOf(c).recvs = <<>>

\* C4 witness: on one channel two receives completed under wildcard filters,
\* one of a message that waited and one of a receive that waited.
C4_Witness ==
    \E c \in ChannelIds :
        /\ AllWildcard(c)
        /\ Len(CompletionsOn(c)) >= 2
        /\ \E i, j \in DOMAIN CompletionsOn(c) :
              /\ CompletionsOn(c)[i].waited = "recv"
              /\ CompletionsOn(c)[j].waited = "message"
              /\ sendLog[CompletionsOn(c)[i].message.sno][4] #
                    sendLog[CompletionsOn(c)[j].message.sno][4]

\* The matching rule on what the callers passed: message tags (req_s,
\* seq_s), receive filter (req_r, seq_r).
UserMatches(sl, rl, m, r) ==
    /\ rl[r.rno][5] = kHelAnyRequest \/ rl[r.rno][5] = sl[m.sno][4]
    /\ rl[r.rno][6] = kHelAnySequence \/ rl[r.rno][6] = sl[m.sno][5]

\* C5: a message (req_s, seq_s) is delivered to a receive with filter
\* (req_r, seq_r) only if req_r is the wildcard or equals req_s and seq_r is
\* the wildcard or equals seq_s; when several queued records match, the one
\* enqueued earliest is chosen and the records ahead of it stay queued in
\* their order; a record is queued only when nothing queued matches it.
C5_EarliestMatchWins ==
    [][\A c \in ChannelIds :
          LET ch == pipes[c[1]][c[2]]
              chN == pipes'[c[1]][c[2]]
              M(m, r) == UserMatches(sendLog', recvLog', m, r)
          IN IF /\ Len(completions') = Len(completions) + 1
                /\ completions'[Len(completions')].pipe = c[1]
                /\ completions'[Len(completions')].side = c[2]
             THEN LET e == completions'[Len(completions')]
                  IN /\ M(e.message, e.recv)
                     /\ \/ \E i \in DOMAIN ch.messages :
                              /\ ch.messages[i] = e.message
                              /\ \A j \in 1..(i - 1) : ~M(ch.messages[j], e.recv)
                              /\ chN.messages = RemoveAt(ch.messages, i)
                              /\ chN.recvs = ch.recvs
                        \/ \E i \in DOMAIN ch.recvs :
                              /\ ch.recvs[i] = e.recv
                              /\ \A j \in 1..(i - 1) : ~M(e.message, ch.recvs[j])
                              /\ chN.recvs = RemoveAt(ch.recvs, i)
                              /\ chN.messages = ch.messages
             ELSE \/ chN = ch
                  \/ /\ chN.recvs = ch.recvs
                     /\ Len(chN.messages) = Len(ch.messages) + 1
                     /\ SubSeq(chN.messages, 1, Len(ch.messages)) = ch.messages
                     /\ \A r \in SeqRange(ch.recvs) :
                           ~M(chN.messages[Len(chN.messages)], r)
                  \/ /\ chN.messages = ch.messages
                     /\ Len(chN.recvs) = Len(ch.recvs) + 1
                     /\ SubSeq(chN.recvs, 1, Len(ch.recvs)) = ch.recvs
                     /\ \A m \in SeqRange(ch.messages) :
                           ~M(m, chN.recvs[Len(chN.recvs)])]_vars

\* C5 witness: a receive with a non-wildcard filter was completed by the
\* second of three queued messages: the first did not match and stays queued
\* ahead of the third, which matched too.
C5_Witness ==
    \E c \in ChannelIds :
        /\ Len(ChannelOf(c).messages) = 2
        /\ completions # <<>>
        /\ LET e == completions[Len(completions)]
               ms == ChannelOf(c).messages
           IN /\ e.pipe = c[1] /\ e.side = c[2]
              /\ e.recv.filterRequest # kHelAnyRequest
              /\ ~Matches(ms[1], e.recv)
              /\ Matches(ms[2], e.recv)
              /\ ms[1].sno < e.message.sno
              /\ e.message.sno < ms[2].sno

\* The descriptor type of the handle a message was sent through, or a receive
\* was submitted through.
SentThrough(m) == attached[sendLog[m.sno][1]].type
SubmittedThrough(r) == attached[recvLog[r.rno][1]].type

\* C6: a message sent through the First descriptor is enqueued on the pipe's
\* second channel and can only complete a receive submitted through the Second
\* descriptor, and symmetrically; no endpoint receives what it sent.
C6_SendCrossesToOtherEnd ==
    /\ \A p \in DOMAIN pipes :
          /\ \A m \in SeqRange(pipes[p].second.messages) :
                SentThrough(m) = "BiDirectionFirst"
          /\ \A m \in SeqRange(pipes[p].first.messages) :
                SentThrough(m) = "BiDirectionSecond"
    /\ \A e \in SeqRange(completions) :
          /\ SentThrough(e.message) # SubmittedThrough(e.recv)
          /\ SentThrough(e.message) = "BiDirectionFirst" =>
                e.side = "second" /\ SubmittedThrough(e.recv) = "BiDirectionSecond"
          /\ SentThrough(e.message) = "BiDirectionSecond" =>
                e.side = "first" /\ SubmittedThrough(e.recv) = "BiDirectionFirst"

\* C6 witness: each end has received a message of the other end.
C6_Witness ==
    /\ \E e \in SeqRange(completions) :
          /\ SentThrough(e.message) = "BiDirectionFirst"
          /\ SubmittedThrough(e.recv) = "BiDirectionSecond"
    /\ \E e \in SeqRange(completions) :
          /\ SentThrough(e.message) = "BiDirectionSecond"
          /\ SubmittedThrough(e.recv) = "BiDirectionFirst"

\* C7: round trip.  For every SendString(buf_in, len, msg_request, msg_seq)
\* matched with a SubmitRecvString whose buffer holds at least len bytes, the
\* completion event on the receiver's hub carries the async id (and submit
\* function and object) given at submit, length = len, the same (msg_request,
\* msg_seq), and the receive buffer holds buf_in[0..len]; the hub got exactly
\* one event per completion.
C7_RoundTrip ==
    /\ \A e \in SeqRange(completions) :
          LET sa == sendLog[e.message.sno]
              ra == recvLog[e.recv.rno]
          IN ra[4] >= sa[3] =>
                /\ e.event.type = "RecvString"
                /\ e.event.error = "Ok"
                /\ e.event.asyncId = ra[7]
                /\ e.event.submitFunction = ra[8]
                /\ e.event.submitObject = ra[9]
                /\ e.event.length = sa[3]
                /\ e.event.msgRequest = sa[4]
                /\ e.event.msgSeq = sa[5]
                /\ SubSeq(userMem[ra[3]], 1, sa[3]) = SubSeq(userMem[sa[2]], 1, sa[3])
                /\ \E i \in DOMAIN hubs[attached[ra[2]].obj] :
                      hubs[attached[ra[2]].obj][i] = e.event
    /\ \A h \in DOMAIN hubs :
          Len(hubs[h]) = Cardinality({i \in DOMAIN completions :
                                         completions[i].recv.hub = h})

\* C7 witness: a 2-byte message out of a 3-byte buffer was received into a
\* 3-byte buffer by a receive submitted before the send, and another message
\* by a receive submitted after the send.
C7_Witness ==
    /\ \E e \in SeqRange(completions) :
          /\ sendLog[e.message.sno][3] = 2
          /\ recvLog[e.recv.rno][4] = 3
          /\ userMem[recvLog[e.recv.rno][3]] = <<7, 8, 0>>
          /\ e.event.asyncId = AsyncIdOf(e.recv.rno)
    /\ \E e \in SeqRange(completions) :
          /\ recvLog[e.recv.rno][4] >= sendLog[e.message.sno][3]
          /\ e = completions[Len(completions)]
          /\ lastCall.index = "SubmitRecvString"

(***************************************************************************)
(* SpecServer: a hub exists; the init thread creates threads and servers   *)
(* and submits accepts and connects to the servers, in any order.          *)
(***************************************************************************)
\* The Server and Client handles of the universe.
ServerHandles ==
    {h \in DOMAIN descriptorMap :
        descriptorMap[h].type \in {"Server", "Client"}}

\* (a second thread is created before anything else is done; it never
\* runs here, since nothing blocks or preempts the init thread)
CreateThreadCall ==
    /\ Len(threads) < MaxThreads
    /\ lastCall.index = "CreateEventHub"
    /\ SysCreateThread(Args(<<>>))

NextServer ==
    \/ CreateThreadCall
    \/ Len(servers) < MaxServers /\ SysCreateServer
    \/ \E h \in ServerHandles : SubmitAcceptCall(h, 4)
    \/ \E h \in ServerHandles : SubmitConnectCall(h, 4)

SpecServer == InitPipe /\ [][NextServer]_vars

(***************************************************************************)
(* Claim about servers.                                                    *)
(***************************************************************************)
\* The server a SubmitAccept or SubmitConnect call named.
ServerOf(a) == attached[a[1]].obj

\* The positions in a call log of the calls on server s, in order.
CallsOn(log, s) == InOrder({i \in DOMAIN log : ServerOf(log[i]) = s})

IsOn(s, pair) == ServerOf(acceptLog[pair.accept.no]) = s

\* The pairings of server s, in order.
PairsOn(s) == SelectSeq(rendezvous, LAMBDA pair : IsOn(s, pair))

\* How often an event was posted to a hub.
TimesPosted(hub, event) ==
    Cardinality({i \in DOMAIN posted :
                    posted[i] = [hub |-> hub, event |-> event]})

\* What a pairing leaves behind: one pipe of its own, the two ends of it
\* attached under two new handles, and for each side one event in the hub it
\* named, with its async id and its new handle.
PairingDone(k) ==
    LET pair == rendezvous[k]
        accept == acceptLog[pair.accept.no]
        connect == connectLog[pair.connect.no]
    IN /\ pair.pipe \in DOMAIN pipes
       /\ \A j \in DOMAIN rendezvous : j # k => rendezvous[j].pipe # pair.pipe
       /\ pair.acceptHandle # pair.connectHandle
       /\ {attached[pair.acceptHandle], attached[pair.connectHandle]}
             = {AnyDescriptor("BiDirectionFirst", pair.pipe),
                AnyDescriptor("BiDirectionSecond", pair.pipe)}
       /\ \A h \in DOMAIN attached :
             (IsPipeDescriptor(attached[h]) /\ attached[h].obj = pair.pipe)
                => h \in {pair.acceptHandle, pair.connectHandle}
       /\ pair.acceptEvent.handle = pair.acceptHandle
       /\ pair.acceptEvent.asyncId = accept[3]
       /\ pair.acceptEvent.error = "Ok"
       /\ TimesPosted(attached[accept[2]].obj, pair.acceptEvent) = 1
       /\ pair.connectEvent.handle = pair.connectHandle
       /\ pair.connectEvent.asyncId = connect[3]
       /\ pair.connectEvent.error = "Ok"
       /\ TimesPosted(attached[connect[2]].obj, pair.connectEvent) = 1

KthWithKth(s) ==
    /\ Len(PairsOn(s)) = IF Len(CallsOn(acceptLog, s)) < Len(CallsOn(connectLog, s))
                         THEN Len(CallsOn(acceptLog, s))
                         ELSE Len(CallsOn(connectLog, s))
    /\ \A k \in DOMAIN PairsOn(s) :
          /\ PairsOn(s)[k].accept.no = CallsOn(acceptLog, s)[k]
          /\ PairsOn(s)[k].connect.no = CallsOn(connectLog, s)[k]

ServerInvariant ==
    /\ \A s \in DOMAIN servers :
          /\ KthWithKth(s)
          /\ servers[s].accepts = <<>> \/ servers[s].connects = <<>>
    /\ \A k \in DOMAIN rendezvous : PairingDone(k)
    /\ Len(posted) = 2 * Len(rendezvous)

\* A step that pairs creates the pair's pipe, new and empty, and attaches
\* its ends under handles never seen before; a step that does not pair
\* posts no event and creates no pipe.
ServerStep ==
    IF rendezvous' # rendezvous
    THEN /\ Len(rendezvous') = Len(rendezvous) + 1
         /\ pipes' = Append(pipes, NewBiDirectionPipe)
         /\ rendezvous'[Len(rendezvous')].pipe = Len(pipes')
         /\ {rendezvous'[Len(rendezvous')].acceptHandle,
             rendezvous'[Len(rendezvous')].connectHandle}
               = (DOMAIN descriptorMap') \ (DOMAIN attached)
    ELSE /\ posted' = posted
         /\ hubs' = hubs
         /\ pipes' = pipes

\* C8: on every server the k-th accept is paired with the k-th connect;
\* each pairing creates one fresh pipe whose two endpoint descriptors are
\* attached and posts to each side exactly one event carrying its new
\* handle; a server's accept and connect queues are never both non-empty;
\* a submit that finds no partner posts no event.
C8_ServerRendezvous == [](ServerInvariant) /\ [][ServerStep]_vars

\* C8 witness: two accepts waited, then two connects arrived and were paired
\* with them in order.
C8_Witness ==
    /\ Len(rendezvous) = 2
    /\ Len(acceptLog) = 2
    /\ Len(connectLog) = 2
    /\ acceptLog[2][3] < connectLog[1][3]
    /\ rendezvous[2].accept.no = 2
    /\ rendezvous[2].connect.no = 2
    /\ lastCall.index = "SubmitConnect"

(***************************************************************************)
(* SpecHub: a pipe, a hub and two threads exist.  The threads post          *)
(* events to the hub (by submitting receives to one end of the pipe and    *)
(* sending through the other) and wait for them, with either capacity and  *)
(* any kind of timeout, while the timer ticks.                             *)
(***************************************************************************)
\* (capacity, timeout in ticks) of the WaitForEvents calls.
WaitShapes == {<<1, -1>>, <<EventBufferSize, 0>>, <<1, 2>>}

\* (every message is sent to a receive that waits for it)
PostSend ==
    /\ Len(sendLog) < Len(recvLog)
    /\ SysSendString(Args(<<2, 1, 2, 0, 0>>))

PostRecv ==
    /\ Len(recvLog) < MaxPosts
    /\ SysSubmitRecvString(
           Args(<<3, 4, RecvBuffer(Len(recvLog) + 1), 3, kHelAnyRequest,
                  kHelAnySequence, AsyncIdOf(Len(recvLog) + 1),
                  SubmitFunction, SubmitObject>>))

\* The init thread has created the pipe, the hub and a second thread.
InitHub ==
    /\ descriptorMap = <<AnyDescriptor("MemoryAccess", 1),
                         AnyDescriptor("BiDirectionFirst", 1),
                         AnyDescriptor("BiDirectionSecond", 1),
                         AnyDescriptor("EventHub", 1),
                         AnyDescriptor("Thread", 2)>>
    /\ nextHandle = 6
    /\ panicked = FALSE
    /\ attached = descriptorMap
    /\ detached = {}
    /\ issued = <<1, 2, 3, 4, 5>>
    /\ lastOp = [op |-> "none", handle |-> 0, result |-> NullDescriptor]
    /\ pipes = <<NewBiDirectionPipe>>
    /\ hubs = <<<<>>>>
    /\ servers = <<>>
    /\ userMem = UserMemory
    /\ ret = <<<<"Ok", 5>>, <<>>>>
    /\ currentThread = 1
    /\ threads = <<[state |-> "Running", wait |-> NoWait], NewThread>>
    /\ scheduleQueue = <<2>>
    /\ now = 0
    /\ sendLog = <<>>
    /\ recvLog = <<>>
    /\ completions = <<>>
    /\ acceptLog = <<>>
    /\ connectLog = <<>>
    /\ rendezvous = <<>>
    /\ posted = <<>>
    /\ delivered = <<>>
    /\ lastCall = [index |-> "CreateThread", closedArg |-> FALSE]
    /\ InitExt

NextHub ==
    \/ PostSend
    \/ PostRecv
    \/ \E w \in WaitShapes : WaitForEventsCall(4, w[1], w[2])
    \/ WaitForEventsResume
    \/ now < MaxTime /\ thorIrq(0)

SpecHub == InitHub /\ [][NextHub]_vars

(***************************************************************************)
(* Claims about event hubs.                                                *)
(***************************************************************************)
\* The hub a WaitForEvents call named.
HubOf(a) == attached[a[1]].obj

RECURSIVE Concat(_)
Concat(ss) == IF ss = <<>> THEN <<>> ELSE Head(ss) \o Concat(Tail(ss))

\* The events posted to hub h, in the order of posting.
PostedTo(h) ==
    LET to == SelectSeq(posted, LAMBDA x : x.hub = h)
    IN [i \in DOMAIN to |-> to[i].event]

\* The events WaitForEvents returned from hub h, in the order of returning.
DeliveredFrom(h) ==
    LET from == SelectSeq(delivered, LAMBDA d : HubOf(d.call) = h)
    IN Concat([i \in DOMAIN from |-> from[i].events])

LastDelivered == delivered'[Len(delivered')]

HubInvariant ==
    /\ \A h \in DOMAIN hubs :
          /\ DeliveredFrom(h) \o hubs[h] = PostedTo(h)
          /\ \A i, j \in DOMAIN PostedTo(h) :
                i # j => PostedTo(h)[i] # PostedTo(h)[j]
    /\ \A i \in DOMAIN delivered :
          Len(delivered[i].events) <= delivered[i].call[3]

\* A WaitForEvents return takes its events off the front of the hub's queue,
\* leaves the rest as it was, and hands the caller the events and their
\* number.
HubStep ==
    delivered' # delivered =>
        LET d == LastDelivered
            h == HubOf(d.call)
        IN /\ delivered' = Append(delivered, d)
           /\ d.events \o hubs'[h] = hubs[h]
           /\ Len(d.events) <= d.call[3]
           /\ SubSeq(userMem'[d.call[2]], 1, Len(d.events)) = d.events
           /\ ret'[d.thread] = <<"Ok", Len(d.events)>>

\* C9: a hub's events are delivered by WaitForEvents in the order they were
\* posted; a call with capacity cap returns at most cap events, the oldest
\* ones, and the others stay queued in order; no event is delivered twice
\* or lost.
C9_HubDeliversInPostOrder == [](HubInvariant) /\ [][HubStep]_vars

\* C9 witness: three events were posted; two calls with capacity 1 returned
\* the first and then the second, and the third is still queued.
C9_Witness ==
    /\ Len(PostedTo(1)) = 3
    /\ Len(delivered) = 2
    /\ delivered[1].call[3] = 1
    /\ delivered[1].events = <<PostedTo(1)[1]>>
    /\ delivered[2].events = <<PostedTo(1)[2]>>
    /\ hubs[1] = <<PostedTo(1)[3]>>
    /\ lastCall.index = "WaitForEvents"

\* The timeout of a WaitForEvents call.
Timeout(a) == a[4]

\* The timeout of the wait w has run out at `time`.
RunOut(w, time) == Timeout(w.call) > 0 /\ time >= w.since + Timeout(w.call)

\* A thread is Blocked only in a wait with a timeout other than 0, on a hub
\* without events, before its deadline.
WaitInvariant ==
    \A t \in DOMAIN threads :
        threads[t].state = "Blocked" =>
            /\ Timeout(threads[t].wait.call) # 0
            /\ hubs[threads[t].wait.hub] = <<>>
            /\ ~RunOut(threads[t].wait, now)

\* WaitForEvents is entered on a hub without events: timeout 0 returns at
\* once with count 0, any other timeout blocks the caller.
WaitEntered ==
    LET t == currentThread
        returns == /\ delivered' # delivered
                   /\ delivered' = Append(delivered, LastDelivered)
                   /\ LastDelivered.thread = t
                   /\ ~LastDelivered.blocked
                   /\ ret'[t] = <<"Ok", Len(LastDelivered.events)>>
                   /\ threads'[t] = threads[t]
                   /\ currentThread' = t
        blocks == /\ threads'[t].state = "Blocked"
                  /\ delivered' = delivered
                  /\ ret' = ret
        a == IF delivered' # delivered THEN LastDelivered.call
             ELSE threads'[t].wait.call
    IN lastCall'.index = "WaitForEvents" =>
          /\ returns \/ blocks
          /\ hubs[HubOf(a)] = <<>> =>
                IF Timeout(a) = 0
                THEN returns /\ LastDelivered.events = <<>>
                ELSE blocks

\* A Blocked thread is woken only by an event in its hub or, with a positive
\* timeout, by its deadline.
WaitWoken ==
    \A t \in DOMAIN threads :
        (threads[t].state = "Blocked" /\ threads'[t].state # "Blocked") =>
            \/ hubs'[threads[t].wait.hub] # <<>>
            \/ RunOut(threads[t].wait, now')

\* The caller that blocked gets the CPU again: it returns the events of the
\* hub if there are any, returns count 0 if its timeout has run out, and
\* blocks again otherwise.
WaitResumed ==
    LET t == currentThread
        w == threads[t].wait
        returns == /\ delivered' # delivered
                   /\ delivered' = Append(delivered, LastDelivered)
                   /\ LastDelivered.thread = t
                   /\ LastDelivered.call = w.call
                   /\ LastDelivered.blocked
                   /\ ret'[t] = <<"Ok", Len(LastDelivered.events)>>
                   /\ threads'[t].state = "Running"
    IN lastCall'.index = "WaitForEventsResume" =>
          IF hubs[w.hub] # <<>>
          THEN /\ returns
               /\ LastDelivered.events # <<>>
               /\ LastDelivered.events \o hubs'[w.hub] = hubs[w.hub]
          ELSE IF RunOut(w, now)
          THEN returns /\ LastDelivered.events = <<>>
          ELSE /\ threads'[t].state = "Blocked"
               /\ delivered' = delivered
               /\ ret' = ret

\* No caller that blocked returns count 0 unless its (positive) timeout has
\* run out.
NoEmptyReturn ==
    \A i \in DOMAIN delivered :
        (delivered[i].blocked /\ delivered[i].events = <<>>) =>
            Timeout(delivered[i].call) > 0

\* C10: WaitForEvents on a hub without events returns at once with count 0
\* when the timeout is 0; with a positive timeout the caller is Blocked and
\* returns Ok with count 0 once the deadline has passed without a post, or
\* the posted events if there are some; with a negative timeout it is
\* Blocked until an event is posted and never returns count 0.
C10_WaitForEventsTimeouts ==
    /\ [](WaitInvariant /\ NoEmptyReturn)
    /\ [][WaitEntered /\ WaitWoken /\ WaitResumed]_vars

\* C10 witness: a caller with a positive timeout blocked and returned count
\* 0, and a caller without a deadline blocked and returned an event.
C10_Witness ==
    \E i, j \in DOMAIN delivered :
        /\ delivered[i].blocked
        /\ Timeout(delivered[i].call) > 0
        /\ delivered[i].events = <<>>
        /\ delivered[j].blocked
        /\ Timeout(delivered[j].call) < 0
        /\ delivered[j].events # <<>>

(***************************************************************************)
(* allocAsyncId(): the async ids the submit calls hand out.  Any number of *)
(* calls run concurrently (several CPUs, or a call interrupted by          *)
(* another); a call is the sequence  enter, fetchInc, return.              *)
(***************************************************************************)
\* Calls of allocAsyncId() in a run.
MaxAllocs == 4

\* Everything allocAsyncId() leaves alone.
baseVars ==
    <<universeVars, historyVars, objectVars, ret, threadVars, ipcHistoryVars,
      serverHistoryVars, hubHistoryVars, lastCall, irqVars, spaceVars,
      machineVars>>

Range(q) == {q[i] : i \in DOMAIN q}

\* fetchInc without the store: the counter is read and left as it was.
fetchInc_LoadOnly(counter) == [value |-> counter, counter |-> counter]

\* frigg::fetchInc<int64_t>(&nextAsyncId, async_id): one atomic
\* read-modify-write; async_id gets the old value, the counter the old
\* value plus one.  (The int64_t counter cannot wrap within MaxAllocs.)
fetchInc(counter) == [value |-> counter, counter |-> counter + 1]

\* A caller enters allocAsyncId(); `after` remembers the values the calls
\* that already returned got.
AllocEnter ==
    /\ Len(asyncCalls) < MaxAllocs
    /\ asyncCalls' = Append(asyncCalls,
           [pc |-> "fetchInc", async_id |-> 0, after |-> Range(asyncReturned)])
    /\ UNCHANGED <<baseVars, nextAsyncId, asyncIssued, asyncReturned>>

\* The call executes its fetchInc.
AllocFetchInc(c) ==
    /\ asyncCalls[c].pc = "fetchInc"
    /\ LET r == fetchInc(nextAsyncId)
       IN  /\ nextAsyncId' = r.counter
           /\ asyncCalls' = [asyncCalls EXCEPT ![c].pc = "return",
                                               ![c].async_id = r.value]
           /\ asyncIssued' = Append(asyncIssued, r.value)
    /\ UNCHANGED <<baseVars, asyncReturned>>

\* return async_id;
AllocReturn(c) ==
    /\ asyncCalls[c].pc = "return"
    /\ asyncCalls' = [asyncCalls EXCEPT ![c].pc = "done"]
    /\ asyncReturned' = Append(asyncReturned, asyncCalls[c].async_id)
    /\ UNCHANGED <<baseVars, nextAsyncId, asyncIssued>>

NextAsync ==
    \/ AllocEnter
    \/ \E c \in DOMAIN asyncCalls : AllocFetchInc(c)
    \/ \E c \in DOMAIN asyncCalls : AllocReturn(c)

SpecAsync == InitUniverse /\ [][NextAsync]_vars

\* C12: for any interleaving of concurrent callers of allocAsyncId, no two
\* calls return the same value, the first value issued is 1, and a call
\* that starts after another call has returned gets a strictly greater
\* value than that call got.
C12_AsyncIdsUnique ==
    /\ \A i, j \in DOMAIN asyncReturned :
           i # j => asyncReturned[i] # asyncReturned[j]
    /\ asyncIssued # <<>> => asyncIssued[1] = 1
    /\ \A c \in DOMAIN asyncCalls :
           asyncCalls[c].pc \in {"return", "done"}
               => \A v \in asyncCalls[c].after : asyncCalls[c].async_id > v

\* Two overlapping calls finished in the opposite order of their fetches,
\* and a third call that entered after both had returned has its value.
C12_Witness ==
    \E a, b, c \in DOMAIN asyncCalls :
        /\ a < b /\ b < c
        /\ asyncCalls[a].pc = "done" /\ asyncCalls[b].pc = "done"
        /\ asyncCalls[b].after = {}
        /\ asyncCalls[b].async_id < asyncCalls[a].async_id
        /\ asyncCalls[c].pc = "done"
        /\ asyncCalls[c].after =
               {asyncCalls[a].async_id, asyncCalls[b].async_id}

(***************************************************************************)
(* SpecIrq: two hubs and the IRQ descriptors of both vectors exist (the    *)
(* init thread has called CreateEventHub twice, AccessIrq(0) and           *)
(* AccessIrq(255)).  The thread subscribes the hubs to the relays, while   *)
(* interrupts of any vector arrive.                                        *)
(***************************************************************************)
\* Accepted SubmitWaitForIrq calls in a run.
MaxIrqSubs == 3

InitIrq ==
    /\ descriptorMap = <<AnyDescriptor("MemoryAccess", 1),
                         AnyDescriptor("EventHub", 1),
                         AnyDescriptor("EventHub", 2),
                         AnyDescriptor("Irq", 0),
                         AnyDescriptor("Irq", NumRelays - 1)>>
    /\ nextHandle = 6
    /\ panicked = FALSE
    /\ attached = descriptorMap
    /\ detached = {}
    /\ issued = <<1, 2, 3, 4, 5>>
    /\ lastOp = [op |-> "none", handle |-> 0, result |-> NullDescriptor]
    /\ pipes = <<>>
    /\ hubs = <<<<>>, <<>>>>
    /\ servers = <<>>
    /\ userMem = UserMemory
    /\ ret = <<<<"Ok", 5>>>>
    /\ currentThread = 1
    /\ threads = <<[state |-> "Running", wait |-> NoWait]>>
    /\ scheduleQueue = <<>>
    /\ now = 0
    /\ sendLog = <<>>
    /\ recvLog = <<>>
    /\ completions = <<>>
    /\ acceptLog = <<>>
    /\ connectLog = <<>>
    /\ rendezvous = <<>>
    /\ posted = <<>>
    /\ delivered = <<>>
    /\ lastCall = [index |-> "AccessIrq", closedArg |-> FALSE]
    /\ InitExt

\* The IRQ handles issued so far.
IrqArgs == {h \in HandleArgs : attached[h].type = "Irq"}

SubmitWaitForIrqCall(h, hh) ==
    /\ Len(irqSubs) < MaxIrqSubs
    /\ SysSubmitWaitForIrq(
           Args(<<h, hh, AsyncIdOf(Len(irqSubs) + 1), SubmitFunction,
                  SubmitObject>>))

\* An interrupt arrives; the timer's are counted by the clock.
Interrupt(v) ==
    /\ v = 0 => now < MaxTime
    /\ thorIrq(v)

NextIrq ==
    \/ \E h \in IrqArgs, hh \in HubArgs : SubmitWaitForIrqCall(h, hh)
    \/ \E v \in IrqVectors : Interrupt(v)

SpecIrq == InitIrq /\ [][NextIrq]_vars

(***************************************************************************)
(* Claims about IRQ relays.                                                *)
(***************************************************************************)
\* The vector and the hub an accepted SubmitWaitForIrq call named.
IrqOf(a) == attached[a[1]].obj
IrqHubOf(a) == attached[a[2]].obj

\* The accepted subscriptions to vector v since v fired last, oldest first.
SubsSince(v) ==
    InOrder({i \in DOMAIN irqSubs :
                 IrqOf(irqSubs[i]) = v /\ i > irqFiredAt[v]})

\* What the user asked a subscription's event to carry.
IrqEventOf(a) ==
    UserEvent("Irq", "Ok", SubmitInfo(a[3], a[4], a[5]), 0, 0, 0, 0)

\* The events a fire of v owes: one per subscription since the last fire.
OwedPosts(v) ==
    [k \in DOMAIN SubsSince(v) |->
        [hub |-> IrqHubOf(irqSubs[SubsSince(v)[k]]),
         event |-> IrqEventOf(irqSubs[SubsSince(v)[k]])]]

\* The events of `posts` that go to hub h, in order.
PostsTo(posts, h) ==
    LET at == InOrder({k \in DOMAIN posts : posts[k].hub = h})
    IN [k \in DOMAIN at |-> posts[at[k]].event]

\* A relay's waiters are the subscriptions since its last fire.
IrqInvariant ==
    \A v \in IrqVectors :
        /\ Len(irqRelays[v]) = Len(SubsSince(v))
        /\ \A k \in DOMAIN irqRelays[v] :
               irqRelays[v][k].hub = IrqHubOf(irqSubs[SubsSince(v)[k]])

\* What one interrupt does.
IrqStep ==
    lastCall'.index = "Irq" =>
        LET v == irqTrace'[2].irq
        IN /\ irqTrace'[1] = [step |-> "acknowledge", irq |-> v]
           /\ irqTrace'[2] = [step |-> "fire", irq |-> v]
           /\ posted' = posted \o OwedPosts(v)
           /\ \A h \in DOMAIN hubs :
                  hubs'[h] = hubs[h] \o PostsTo(OwedPosts(v), h)
           /\ irqRelays'[v] = <<>>
           /\ \A w \in IrqVectors \ {v} : irqRelays'[w] = irqRelays[w]
           /\ irqSubs' = irqSubs

\* C11: on every interrupt with vector v, thorIrq first acknowledges the
\* interrupt controller and then fires relay v; the fire posts exactly one
\* Ok event, carrying the submitted async_id, to each hub that subscribed
\* through SubmitWaitForIrq since the previous fire of v, and clears the
\* waiter list, so that a subscriber that does not resubmit gets no event
\* on later fires; the relays of other vectors are unaffected.
C11_IrqFiresOncePerSubscription == [](IrqInvariant) /\ [][IrqStep]_vars

\* The last vector has just fired and posted to both hubs, the waiter of
\* vector 0 is still subscribed, and the relay that fired is empty again.
C11_Witness ==
    /\ lastCall.index = "Irq"
    /\ irqTrace[2].irq = NumRelays - 1
    /\ irqRelays[NumRelays - 1] = <<>>
    /\ irqRelays[0] # <<>>
    /\ \E i, j \in DOMAIN irqSubs :
           /\ i < j /\ j <= irqFiredAt[NumRelays - 1]
           /\ IrqOf(irqSubs[i]) = NumRelays - 1
           /\ IrqOf(irqSubs[j]) = NumRelays - 1
           /\ IrqHubOf(irqSubs[i]) # IrqHubOf(irqSubs[j])
           /\ \E m, n \in DOMAIN posted :
                  /\ m < n
                  /\ posted[m] = [hub |-> IrqHubOf(irqSubs[i]),
                                  event |-> IrqEventOf(irqSubs[i])]
                  /\ posted[n] = [hub |-> IrqHubOf(irqSubs[j]),
                                  event |-> IrqEventOf(irqSubs[j])]

(***************************************************************************)
(* ExitThisThread.                                                         *)
(***************************************************************************)
\* helExitThisThread: the running thread becomes Exited.
helExitThisThread(ts, current) == [ts EXCEPT ![current].state = "Exited"]

\* The case without its call of schedule(): the exited thread keeps the CPU.
SysExitThisThread_NoSchedule ==
    /\ CanSyscall
    /\ threads' = helExitThisThread(threads, currentThread)
    /\ NoteCall("ExitThisThread", {})
    /\ UNCHANGED <<extVars, universeVars, historyVars, objectVars, ret,
                   currentThread, scheduleQueue, now, ipcHistoryVars,
                   serverHistoryVars, hubHistoryVars>>

\* kHelCallExitThisThread: helExitThisThread(), then schedule(); no result
\* word is returned.
SysExitThisThread ==
    /\ CanSyscall
    /\ LET next == schedule(helExitThisThread(threads, currentThread),
                            scheduleQueue, currentThread)
       IN /\ threads' = next.threads
          /\ scheduleQueue' = next.queue
          /\ currentThread' = next.current
    /\ NoteCall("ExitThisThread", {})
    /\ UNCHANGED <<extVars, universeVars, historyVars, objectVars, ret, now,
                   ipcHistoryVars, serverHistoryVars, hubHistoryVars>>

(***************************************************************************)
(* SpecSched: one hub exists (the init thread has called CreateEventHub).  *)
(* Threads are created, exit, wait on the hub with and without a timeout   *)
(* and subscribe it to a relay, while interrupts of any vector arrive.     *)
(***************************************************************************)
\* AccessIrq calls in a run.
MaxIrqHandles == 1

InitSched ==
    /\ descriptorMap = <<AnyDescriptor("MemoryAccess", 1),
                         AnyDescriptor("EventHub", 1)>>
    /\ nextHandle = 3
    /\ panicked = FALSE
    /\ attached = descriptorMap
    /\ detached = {}
    /\ issued = <<1, 2>>
    /\ lastOp = [op |-> "none", handle |-> 0, result |-> NullDescriptor]
    /\ pipes = <<>>
    /\ hubs = <<<<>>>>
    /\ servers = <<>>
    /\ userMem = UserMemory
    /\ ret = <<<<"Ok", 2>>>>
    /\ currentThread = 1
    /\ threads = <<[state |-> "Running", wait |-> NoWait]>>
    /\ scheduleQueue = <<>>
    /\ now = 0
    /\ sendLog = <<>>
    /\ recvLog = <<>>
    /\ completions = <<>>
    /\ acceptLog = <<>>
    /\ connectLog = <<>>
    /\ rendezvous = <<>>
    /\ posted = <<>>
    /\ delivered = <<>>
    /\ lastCall = [index |-> "CreateEventHub", closedArg |-> FALSE]
    /\ InitExt

AccessIrqCall(v) ==
    /\ Cardinality(IrqArgs) < MaxIrqHandles
    /\ SysAccessIrq(Args(<<v>>))

NextSched ==
    \/ Len(threads) < MaxThreads /\ SysCreateThread(Args(<<>>))
    \/ SysExitThisThread
    \/ \E ns \in {-1, 1} : WaitForEventsCall(2, 1, ns)
    \/ WaitForEventsResume
    \/ Interrupt(0)

SpecSched == InitSched /\ [][NextSched]_vars

(***************************************************************************)
(* Claims about the scheduler.                                             *)
(***************************************************************************)
Running == {t \in DOMAIN threads : threads[t].state = "Running"}

\* C13: in every reachable state after boot at most one thread is Running,
\* and it is the current thread; the ready queue holds neither the Running
\* thread nor a Blocked or Exited one (every thread in it is Ready), and no
\* thread is in it twice.
C13_OneRunningQueueReady ==
    /\ Cardinality(Running) <= 1
    /\ Running = IF currentThread = 0 THEN {} ELSE {currentThread}
    /\ \A i \in DOMAIN scheduleQueue :
           /\ scheduleQueue[i] \in DOMAIN threads
           /\ threads[scheduleQueue[i]].state = "Ready"
    /\ \A i, j \in DOMAIN scheduleQueue :
           i # j => scheduleQueue[i] # scheduleQueue[j]

\* A thread runs while another is Ready in the queue and a third is
\* Blocked.
C13_Witness ==
    /\ currentThread # 0
    /\ scheduleQueue # <<>>
    /\ \E t \in DOMAIN threads : threads[t].state = "Blocked"

(***************************************************************************)
(* SpecPreempt: SpecSched with the timer ticking for ever.  The timer is   *)
(* periodic, and kernel code runs to completion: a thread that was woken   *)
(* inside WaitForEvents finishes the call once it has the CPU.             *)
(***************************************************************************)
NextPreempt ==
    \/ Len(threads) < MaxThreads /\ SysCreateThread(Args(<<>>))
    \/ SysExitThisThread
    \/ WaitForEventsCall(2, 1, 1)
    \/ WaitForEventsResume
    \/ thorIrq(0)

SpecPreempt ==
    /\ InitSched
    /\ [][NextPreempt]_vars
    /\ WF_vars(thorIrq(0))
    /\ WF_vars(WaitForEventsResume)

\* The last element of a non-empty queue.
Last(q) == q[Len(q)]

\* The timer interrupt, taken while thread currentThread runs: that thread
\* goes to the back of the ready queue, and the head of the queue runs.
PreemptStep ==
    (lastCall'.index = "Irq" /\ irqTrace'[2].irq = 0 /\ currentThread # 0)
        => IF scheduleQueue # <<>>
           THEN /\ currentThread' = Head(scheduleQueue)
                /\ threads'[currentThread'].state = "Running"
                /\ threads'[currentThread].state = "Ready"
                /\ Last(scheduleQueue') = currentThread
                /\ SubSeq(scheduleQueue', 1, Len(scheduleQueue) - 1)
                       = Tail(scheduleQueue)
           ELSE /\ currentThread' # 0
                /\ threads'[currentThread'].state = "Running"
                /\ currentThread' # currentThread
                       => /\ threads'[currentThread].state = "Ready"
                          /\ Last(scheduleQueue') = currentThread

Schedulable(t) ==
    /\ t \in DOMAIN threads
    /\ threads[t].state \in {"Ready", "Running"}

IsRunning(t) == t \in DOMAIN threads /\ threads[t].state = "Running"

\* C14: on IRQ 0 the previously Running thread is set Ready and appended
\* to the back of the ready queue before the head of the queue is popped
\* and made Running; so, with timer ticks occurring infinitely often,
\* every thread that stays Ready or Running is Running infinitely often.
C14_PreemptionIsFair ==
    /\ [][PreemptStep]_vars
    /\ \A t \in 1..MaxThreads :
           <>[]Schedulable(t) => []<>IsRunning(t)

\* Two threads are left that neither block nor exit: one runs, the other
\* is at the head of the ready queue, and the timer has preempted before.
C14_Witness ==
    /\ lastCall.index = "Irq"
    /\ Cardinality({t \in DOMAIN threads : Schedulable(t)}) >= 2
    /\ currentThread # 0
    /\ scheduleQueue # <<>>
    /\ Last(scheduleQueue) # currentThread

(***************************************************************************)
(* SpecWake: a hub, a second thread and the IRQ descriptor of the last     *)
(* vector exist (the init thread has called CreateEventHub, CreateThread   *)
(* and AccessIrq(255)).  The threads subscribe the hub to the relay and    *)
(* wait on the hub without a timeout, while interrupts of any vector       *)
(* arrive.                                                                 *)
(***************************************************************************)
InitWake ==
    /\ descriptorMap = <<AnyDescriptor("MemoryAccess", 1),
                         AnyDescriptor("EventHub", 1),
                         AnyDescriptor("Thread", 2),
                         AnyDescriptor("Irq", NumRelays - 1)>>
    /\ nextHandle = 5
    /\ panicked = FALSE
    /\ attached = descriptorMap
    /\ detached = {}
    /\ issued = <<1, 2, 3, 4>>
    /\ lastOp = [op |-> "none", handle |-> 0, result |-> NullDescriptor]
    /\ pipes = <<>>
    /\ hubs = <<<<>>>>
    /\ servers = <<>>
    /\ userMem = UserMemory
    /\ ret = <<<<"Ok", 4>>, <<>>>>
    /\ currentThread = 1
    /\ threads = <<[state |-> "Running", wait |-> NoWait], NewThread>>
    /\ scheduleQueue = <<2>>
    /\ now = 0
    /\ sendLog = <<>>
    /\ recvLog = <<>>
    /\ completions = <<>>
    /\ acceptLog = <<>>
    /\ connectLog = <<>>
    /\ rendezvous = <<>>
    /\ posted = <<>>
    /\ delivered = <<>>
    /\ lastCall = [index |-> "AccessIrq", closedArg |-> FALSE]
    /\ InitExt

NextWake ==
    \/ SubmitWaitForIrqCall(4, 2)
    \/ WaitForEventsCall(2, 1, -1)
    \/ WaitForEventsResume
    \/ \E v \in IrqVectors : Interrupt(v)
    \/ IdleWake

SpecWake == InitWake /\ [][NextWake]_vars

\* An interrupt of another vector than the timer's has been handled.
DeviceIrq == lastCall'.index = "Irq" /\ irqTrace'[2].irq # 0

WaitersOf(v) ==
    {t \in DOMAIN threads :
        /\ threads[t].state = "Blocked"
        /\ \E k \in DOMAIN irqRelays[v] :
               irqRelays[v][k].hub = threads[t].wait.hub}

Exited == {t \in DOMAIN threads : threads[t].state = "Exited"}

\* An exited thread has no part in scheduling.
ExitedInvariant ==
    \A t \in Exited :
        /\ currentThread # t
        /\ \A i \in DOMAIN scheduleQueue : scheduleQueue[i] # t

\* What the call does, and that an exited thread stays exited.
ExitStep ==
    /\ lastCall'.index = "ExitThisThread"
           => /\ threads'[currentThread].state = "Exited"
              /\ currentThread' # currentThread
              /\ ret'[currentThread] = ret[currentThread]
              /\ \A i \in DOMAIN scheduleQueue' :
                     scheduleQueue'[i] # currentThread
              /\ IF scheduleQueue = <<>>
                 THEN currentThread' = 0 /\ scheduleQueue' = <<>>
                 ELSE /\ currentThread' = Head(scheduleQueue)
                      /\ scheduleQueue' = Tail(scheduleQueue)
                      /\ threads'[currentThread'].state = "Running"
    /\ \A t \in Exited : threads'[t].state = "Exited"

\* C16: ExitThisThread never returns to its caller: the calling thread
\* becomes Exited, is not placed on the ready queue, schedule() is
\* entered, and the exited thread is never made Running again in any
\* later state.
C16_ExitedNeverRuns == [](ExitedInvariant) /\ [][ExitStep]_vars

\* A thread has exited, and later the timer has switched between the
\* threads that are left.
C16_Witness ==
    /\ Exited # {}
    /\ lastCall.index = "Irq"
    /\ currentThread # 0
    /\ scheduleQueue # <<>>

(***************************************************************************)
(* thorSyscall's default case, and SpecCalls: from boot, the init thread   *)
(* issues syscalls with any index and any argument words.                  *)
(***************************************************************************)
\* The indices thorSyscall has a case for (of those, the model has no
\* action for Log, Panic and the memory and I/O port calls).
kHelCalls ==
    {"Log", "Panic", "CloseDescriptor", "AllocateMemory", "MapMemory",
     "MemoryInfo", "CreateThread", "ExitThisThread", "CreateEventHub",
     "WaitForEvents", "CreateBiDirectionPipe", "SendString",
     "SubmitRecvString", "CreateServer", "SubmitAccept", "SubmitConnect",
     "AccessIrq", "SubmitWaitForIrq", "AccessIo", "EnableIo"}

\* An index word that is none of the kHelCall constants.
IllegalIndices == {"Illegal"}

\* default: ASSERT(!"Illegal syscall"): the assertion fails; no
\* thorRtReturnSyscall is reached.
SysDefault(index) ==
    /\ CanSyscall
    /\ index \notin kHelCalls
    /\ panicked' = TRUE
    /\ NoteCall(index, {})
    /\ UNCHANGED <<extVars, descriptorMap, nextHandle, historyVars, objectVars,
                   ret, threadVars, ipcHistoryVars, serverHistoryVars,
                   hubHistoryVars>>

\* The error words of the ABI.
HelErrors ==
    {"Ok", "IllegalSyscall", "IllegalHandle", "NoSuchObject", "NoMemory",
     "BufferTooSmall", "BadDescriptor", "Timeout", "Dismissed", "Fault"}

\* Handle words of every kind: issued (open or closed), zero, not yet issued.
AnyHandleArgs == 0..nextHandle

\* Vector words: the ends of the range, and one past each end.
VectorArgs == {-1, 0, NumRelays - 1, NumRelays}

\* Buffer words: the null pointer and a buffer of the caller's.
BufferArgs == {0, 1}

\* The calls that only open and close handles.
SetupCalls ==
    {"CreateBiDirectionPipe", "CreateEventHub", "CreateServer",
     "CreateThread", "AccessIrq", "CloseDescriptor"}

\* (one call of the other kinds is enough here, after any calls that open
\* and close handles)
Preparing == lastCall = NoCall \/ lastCall.index \in SetupCalls

NextCalls ==
    \/ Preparing /\ SysCreateBiDirectionPipe
    \/ Preparing /\ SysCreateEventHub
    \/ /\ Preparing
       /\ Len(servers) < MaxServers
       /\ nextHandle + 1 <= MaxHandle
       /\ SysCreateServer
    \/ /\ Preparing
       /\ Len(threads) < MaxThreads
       /\ nextHandle <= MaxHandle
       /\ SysCreateThread(Args(<<>>))
    \/ \E v \in VectorArgs :
          /\ Preparing
          /\ nextHandle <= MaxHandle
          /\ AccessIrqCall(v)
    \/ \E h \in AnyHandleArgs : Preparing /\ SysCloseDescriptor(Args(<<h>>))
    \/ \E h \in AnyHandleArgs, b \in BufferArgs :
          Preparing /\ SendStringCall(h, <<b, 2, 0, 0>>)
    \/ \E h \in AnyHandleArgs, hh \in AnyHandleArgs :
          /\ Preparing
          /\ SubmitRecvStringCall(h, hh, <<3, kHelAnyRequest, kHelAnySequence>>)
    \/ \E h \in AnyHandleArgs :
          Preparing /\ WaitForEventsCall(h, 1, 0)
    \/ \E h \in AnyHandleArgs, hh \in AnyHandleArgs :
          Preparing /\ SubmitAcceptCall(h, hh)
    \/ \E h \in AnyHandleArgs, hh \in AnyHandleArgs :
          Preparing /\ SubmitConnectCall(h, hh)
    \/ \E h \in AnyHandleArgs, hh \in AnyHandleArgs :
          Preparing /\ SubmitWaitForIrqCall(h, hh)
    \/ Preparing /\ SysExitThisThread
    \/ \E index \in IllegalIndices : Preparing /\ SysDefault(index)

SpecCalls == InitBoot /\ [][NextCalls]_vars

\* C17: no syscall of a user thread, whatever its index and its argument
\* words (bad handle, out-of-range IRQ vector, null buffer), halts the
\* kernel, and every call that comes back to its caller returns an error
\* word of the ABI.
C17_SyscallsNeverHalt ==
    [][/\ ~panicked'
       /\ (currentThread # 0 /\ currentThread' = currentThread
           /\ lastCall'.index # "ExitThisThread")
              => /\ ret'[currentThread] # <<>>
                 /\ ret'[currentThread][1] \in HelErrors]_vars

(***************************************************************************)
(* SpecDismiss: a pipe, two hubs, a server and two descriptors of one      *)
(* interrupt exist; the init thread submits receives, accepts, connects    *)
(* and interrupt waits, sends, and closes descriptors in any order, and    *)
(* the interrupt arrives at any time.                                      *)
(***************************************************************************)
\* Submits in a behaviour of SpecDismiss.
MaxPending == 2

Submitted ==
    Len(recvLog) + Len(acceptLog) + Len(connectLog) + Len(irqSubs)

InitDismiss ==
    /\ descriptorMap = <<AnyDescriptor("MemoryAccess", 1),
                         AnyDescriptor("BiDirectionFirst", 1),
                         AnyDescriptor("BiDirectionSecond", 1),
                         AnyDescriptor("EventHub", 1),
                         AnyDescriptor("EventHub", 2),
                         AnyDescriptor("Server", 1),
                         AnyDescriptor("Client", 1),
                         AnyDescriptor("Irq", NumRelays - 1),
                         AnyDescriptor("Irq", NumRelays - 1)>>
    /\ nextHandle = 10
    /\ panicked = FALSE
    /\ attached = descriptorMap
    /\ detached = {}
    /\ issued = <<1, 2, 3, 4, 5, 6, 7, 8, 9>>
    /\ lastOp = [op |-> "none", handle |-> 0, result |-> NullDescriptor]
    /\ pipes = <<NewBiDirectionPipe>>
    /\ hubs = <<<<>>, <<>>>>
    /\ servers = <<NewServer>>
    /\ userMem = UserMemory
    /\ ret = <<<<"Ok", 9>>>>
    /\ currentThread = 1
    /\ threads = <<[state |-> "Running", wait |-> NoWait]>>
    /\ scheduleQueue = <<>>
    /\ now = 0
    /\ sendLog = <<>>
    /\ recvLog = <<>>
    /\ completions = <<>>
    /\ acceptLog = <<>>
    /\ connectLog = <<>>
    /\ rendezvous = <<>>
    /\ posted = <<>>
    /\ delivered = <<>>
    /\ lastCall = [index |-> "AccessIrq", closedArg |-> FALSE]
    /\ InitExt

\* The handles of a type that are open.
OpenHandles(types) ==
    {h \in DOMAIN descriptorMap : descriptorMap[h].type \in types}

\* The hub a submit through handle h names: the submits through the two
\* ends of the pipe, through the server and its client end, and through
\* the two interrupt descriptors go to different hubs.
HubFor(h) == IF h \in {2, 6, 8} THEN 4 ELSE 5

\* (two closes in a behaviour are enough here)
NextDismiss ==
    \/ \E h \in OpenHandles({"BiDirectionFirst", "BiDirectionSecond"}) :
          /\ Submitted < MaxPending
          /\ SubmitRecvStringCall(h, HubFor(h),
                                  <<3, kHelAnyRequest, kHelAnySequence>>)
    \/ \E h \in OpenHandles({"BiDirectionFirst", "BiDirectionSecond"}) :
          /\ sendLog = <<>>
          /\ SendStringCall(h, <<1, 2, 0, 0>>)
    \/ \E h \in OpenHandles({"Server"}) :
          /\ Submitted < MaxPending
          /\ SubmitAcceptCall(h, HubFor(h))
    \/ \E h \in OpenHandles({"Client"}) :
          /\ Submitted < MaxPending
          /\ SubmitConnectCall(h, HubFor(h))
    \/ \E h \in OpenHandles({"Irq"}) :
          /\ Submitted < MaxPending
          /\ SubmitWaitForIrqCall(h, HubFor(h))
    \/ irqSubs # <<>> /\ Interrupt(NumRelays - 1)
    \/ \E h \in OpenHandles(DescriptorTypes \ {"MemoryAccess", "EventHub"}) :
          /\ Cardinality(detached) < 2
          /\ SysCloseDescriptor(Args(<<h>>))

SpecDismiss == InitDismiss /\ [][NextDismiss]_vars

(***************************************************************************)
(* Claim about closing a descriptor with submits pending.                  *)
(***************************************************************************)
\* The submits the kernel accepted, from the words of their calls: the kind
\* of event that completes each, the handle it was made through, its hub
\* and its async id.
SubmitOf(type, a, id) ==
    [type |-> type, via |-> a[1], hub |-> attached[a[2]].obj, asyncId |-> id]

AllSubmits ==
    {SubmitOf("RecvString", recvLog[k], recvLog[k][7]) : k \in DOMAIN recvLog}
    \cup {SubmitOf("Accept", acceptLog[k], acceptLog[k][3]) :
             k \in DOMAIN acceptLog}
    \cup {SubmitOf("Connect", connectLog[k], connectLog[k][3]) :
             k \in DOMAIN connectLog}
    \cup {SubmitOf("Irq", irqSubs[k], irqSubs[k][3]) : k \in DOMAIN irqSubs}

\* The events posted so far for a submit.
PostsFor(s, ps) ==
    {i \in DOMAIN ps : /\ ps[i].event.type = s.type
                       /\ ps[i].event.asyncId = s.asyncId}

\* A submit is pending until an event was posted for it.
PendingSubmits == {s \in AllSubmits : PostsFor(s, posted) = {}}

\* No submit gets two events, the events go to the submit's hub, and no
\* submit made through a closed descriptor is pending.
DismissInvariant ==
    \A s \in AllSubmits :
        /\ Cardinality(PostsFor(s, posted)) <= 1
        /\ \A i \in PostsFor(s, posted) : posted[i].hub = s.hub
        /\ s.via \in detached => s \notin PendingSubmits

\* What a close does: one Dismissed event for each submit pending through
\* the descriptor, and no other event.
DismissStep ==
    \A h \in detached' \ detached :
        LET dismissed == {s \in PendingSubmits : s.via = h}
            new == [i \in 1..(Len(posted') - Len(posted)) |->
                       posted'[Len(posted) + i]]
        IN /\ Len(posted') = Len(posted) + Cardinality(dismissed)
           /\ \A i \in DOMAIN posted : posted'[i] = posted[i]
           /\ \A s \in dismissed :
                  \E i \in DOMAIN new :
                      /\ PostsFor(s, new) = {i}
                      /\ new[i].hub = s.hub
                      /\ new[i].event.error = "Dismissed"
                      /\ hubs'[s.hub] # <<>>
                      /\ \E j \in DOMAIN hubs'[s.hub] :
                             hubs'[s.hub][j] = new[i].event

MaxSegments == 2

page_size == 4096

ldBaseAddr == 1073741824

stack_size == 2097152

PT_LOAD == "PT_LOAD"

\* The program headers an image may hold: loadable segments that start on
\* and off a page boundary and end on and off one (so that two of them may
\* share a page), with and without bytes beyond the file's, empty ones, and
\* a header of another type.
Phdrs ==
    {[p_type |-> PT_LOAD, p_vaddr |-> v[1], p_offset |-> v[2], p_memsz |-> m,
      p_filesz |-> IF m < 200 THEN m ELSE 200] :
        v \in {<<0, 64>>, <<4000, 1000>>, <<8192, 5192>>},
        m \in {0, 200, 4096}}
    \cup {[p_type |-> "PT_DYNAMIC", p_vaddr |-> 8192, p_offset |-> 5192,
           p_memsz |-> 200, p_filesz |-> 200]}

Images == UNION {[1..n -> Phdrs] : n \in 1..MaxSegments}

\* The locals of the loop body of loadInitImage.
bottom(phdr) == phdr.p_vaddr

top(phdr) == phdr.p_vaddr + phdr.p_memsz

bottom_page(phdr) == bottom(phdr) \div page_size

top_page(phdr) == top(phdr) \div page_size

\* (a variant without the increment for a top off the page boundary)
num_pages_Floor(phdr) == top_page(phdr) - bottom_page(phdr)

num_pages(phdr) ==
    top_page(phdr) - bottom_page(phdr)
        + (IF top(phdr) % page_size # 0 THEN 1 ELSE 0)

\* The segments the loop does not skip.
Loaded(phdr) == phdr.p_type = PT_LOAD /\ bottom(phdr) # top(phdr)

\* A Mapping pointer is the mapping's base address; the null pointer.
NullMapping == -1

\* A Mapping as allocate and allocateAt create it.
NewMapping(base, length) ==
    [baseAddress |-> base, length |-> length, type |-> "Hole",
     memoryRegion |-> 0]

Overlaps(m, base, length) ==
    m.baseAddress < base + length /\ base < m.baseAddress + m.length

\* AddressSpace::allocateAt without the look at the existing mappings.
allocateAt_Unchecked(ms, base, length) ==
    [mappings |-> ms \cup {NewMapping(base, length)}, mapping |-> base]

\* AddressSpace::allocateAt: fails if an existing mapping overlaps.
allocateAt(ms, base, length) ==
    IF \E m \in ms : Overlaps(m, base, length)
    THEN [mappings |-> ms, mapping |-> NullMapping]
    ELSE [mappings |-> ms \cup {NewMapping(base, length)}, mapping |-> base]

\* The holes AddressSpace::allocate may pick for `length` bytes: the start
\* of the user half or the end of a mapping, where nothing overlaps.
Holes(ms, length) ==
    {b \in {page_size} \cup {m.baseAddress + m.length : m \in ms} :
        \A m \in ms : ~Overlaps(m, b, length)}

\* AddressSpace::allocate, having picked the hole at `base`.
allocate(ms, base, length) ==
    [mappings |-> ms \cup {NewMapping(base, length)}, mapping |-> base]

\* Memory::resize on a new Memory: frames to cover `length`, taken from the
\* physical allocator (`allocated` frames are in use).
Memory_resize(length, allocated) ==
    [k \in 1..((length + page_size - 1) \div page_size) |-> allocated + k]

\* Memory::getPage.
getPage(memory, index) == memory[index + 1]

\* PageSpace::mapSingle4k: install the leaf entry.
mapSingle4k(pt, virt, phys) ==
    [v \in (DOMAIN pt) \cup {virt} |-> IF v = virt THEN phys ELSE pt[v]]

\* The pages of a segment the copy loop writes file bytes to.
FilePages(phdr) ==
    {(phdr.p_vaddr + p) \div page_size - bottom_page(phdr) :
        p \in 0..(phdr.p_filesz - 1)}

\* The byte of the image at offset o: *(image + o).
FileByte(o) == (7 * o + 1) % 256

\* A frame as the physical allocator hands it out, and one after the
\* zeroing loop.
StaleFrame == [fill |-> "stale", bytes |-> [off \in {} |-> 0]]

ZeroFrame == [fill |-> "zero", bytes |-> [off \in {} |-> 0]]

\* The copy loop on page `page` of the segment's Memory: for every p below
\* p_filesz that lands on it, the byte at virt_offset becomes
\* image[p_offset + p].
CopyFile(phdr, page, frame) ==
    LET ps == {p \in 0..(phdr.p_filesz - 1) :
                  (phdr.p_vaddr + p) \div page_size - bottom_page(phdr)
                      = page}
        virt_offset(p) == (phdr.p_vaddr + p) % page_size
        written == {virt_offset(p) : p \in ps}
    IN [frame EXCEPT !.bytes =
           [off \in (DOMAIN frame.bytes) \cup written |->
               IF off \in written
               THEN FileByte(phdr.p_offset
                                 + CHOOSE p \in ps : virt_offset(p) = off)
               ELSE frame.bytes[off]]]

InitLoad ==
    /\ descriptorMap = NewUniverse.map
    /\ nextHandle = NewUniverse.next
    /\ panicked = FALSE
    /\ attached = <<>>
    /\ detached = {}
    /\ issued = <<>>
    /\ lastOp = [op |-> "none", handle |-> 0, result |-> NullDescriptor]
    /\ pipes = <<>>
    /\ hubs = <<>>
    /\ servers = <<>>
    /\ userMem = <<>>
    /\ ret = <<>>
    /\ currentThread = 0
    /\ threads = <<>>
    /\ scheduleQueue = <<>>
    /\ now = 0
    /\ sendLog = <<>>
    /\ recvLog = <<>>
    /\ completions = <<>>
    /\ acceptLog = <<>>
    /\ connectLog = <<>>
    /\ rendezvous = <<>>
    /\ posted = <<>>
    /\ delivered = <<>>
    /\ lastCall = NoCall
    /\ InitKernel
    /\ InitMachine
    /\ image \in Images
    /\ loader = [pc |-> "segment", i |-> 0, page |-> 0,
                 mapping |-> NullMapping, memory |-> 0, used |-> {}]
    /\ mappings = {}
    /\ pageTable = <<>>
    /\ memories = <<>>
    /\ frameData = <<>>

\* What thorMain does not touch before it schedules the init thread.
bootVars ==
    <<universeVars, historyVars, objectVars, ret, threadVars, ipcHistoryVars,
      serverHistoryVars, hubHistoryVars, lastCall, asyncVars, irqVars, image,
      machineVars>>

\* loadInitImage, the loop head and the body up to the mapping loop: skip
\* the segment, or allocateAt, a new Memory, resize, zero its pages and copy
\* the file bytes.
LoadSegment ==
    /\ ~panicked
    /\ loader.pc = "segment"
    /\ loader.i < Len(image)
    /\ LET phdr == image[loader.i + 1]
           a == allocateAt(mappings,
                           ldBaseAddr + bottom_page(phdr) * page_size,
                           page_size * num_pages(phdr))
           memory == Memory_resize(num_pages(phdr) * page_size,
                                   Len(frameData))
       IN IF ~Loaded(phdr)
          THEN /\ loader' = [loader EXCEPT !.i = @ + 1]
               /\ UNCHANGED <<mappings, memories, frameData>>
          ELSE /\ mappings' = a.mappings
               /\ memories' = Append(memories, memory)
               /\ frameData' =
                      frameData \o
                      [k \in 1..Len(memory) |->
                          CopyFile(phdr, k - 1, ZeroFrame)]
               /\ loader' = [pc |-> "map", i |-> loader.i, page |-> 0,
                             mapping |-> a.mapping,
                             memory |-> Len(memories) + 1,
                             used |-> 0..(num_pages(phdr) - 1)
                                          \cup FilePages(phdr)]
    /\ UNCHANGED <<bootVars, pageTable>>

\* One turn of the mapping loop.
MapPage ==
    /\ ~panicked
    /\ loader.pc = "map"
    /\ loader.page < num_pages(image[loader.i + 1])
    /\ pageTable' =
           mapSingle4k(pageTable,
                       ldBaseAddr + (bottom_page(image[loader.i + 1])
                                         + loader.page) * page_size,
                       getPage(memories[loader.memory], loader.page))
    /\ loader' = [loader EXCEPT !.page = @ + 1,
                                !.used = @ \cup {loader.page}]
    /\ UNCHANGED <<bootVars, mappings, memories, frameData>>

\* What the stores through a null Mapping pointer may do: the kernel takes
\* a page fault, which is fatal, or the stores go unnoticed.
NullStoreOutcomes == {"fault", "unnoticed"}

\* mapping->type = Mapping::kTypeMemory; mapping->memoryRegion = memory;
\* the pointer is what allocateAt returned, unchecked.
SetMemoryRegion ==
    /\ ~panicked
    /\ loader.pc = "map"
    /\ loader.page = num_pages(image[loader.i + 1])
    /\ IF loader.mapping = NullMapping
       THEN /\ \E outcome \in NullStoreOutcomes :
                  panicked' = (outcome = "fault")
            /\ UNCHANGED mappings
       ELSE /\ mappings' =
                   {IF m.baseAddress = loader.mapping
                    THEN [m EXCEPT !.type = "Memory",
                                   !.memoryRegion = loader.memory]
                    ELSE m : m \in mappings}
            /\ UNCHANGED panicked
    /\ loader' = [loader EXCEPT !.pc = "segment", !.i = @ + 1]
    /\ UNCHANGED <<descriptorMap, nextHandle, historyVars, objectVars, ret,
                   threadVars, ipcHistoryVars, serverHistoryVars,
                   hubHistoryVars, lastCall, asyncVars, irqVars, image,
                   machineVars,
                   pageTable, memories, frameData>>

\* loadInitImage returns the entry.
ReturnEntry ==
    /\ ~panicked
    /\ loader.pc = "segment"
    /\ loader.i = Len(image)
    /\ loader' = [loader EXCEPT !.pc = "stack"]
    /\ UNCHANGED <<bootVars, mappings, pageTable, memories, frameData>>

\* thorMain: a Memory of stack_size bytes, a Mapping from allocate, and each
\* page of it mapped; the Mapping keeps the type allocate gave it.
MapStack ==
    /\ ~panicked
    /\ loader.pc = "stack"
    /\ \E base \in Holes(mappings, stack_size) :
          LET stack_memory == Memory_resize(stack_size, Len(frameData))
              a == allocate(mappings, base, stack_size)
              pages == {base + i * page_size :
                           i \in 0..(stack_size \div page_size - 1)}
          IN /\ mappings' = a.mappings
             /\ memories' = Append(memories, stack_memory)
             /\ frameData' = frameData \o
                                 [k \in 1..Len(stack_memory) |-> StaleFrame]
             /\ pageTable' =
                    [v \in (DOMAIN pageTable) \cup pages |->
                        IF v \in pages
                        THEN getPage(stack_memory,
                                     (v - base) \div page_size)
                        ELSE pageTable[v]]
             /\ loader' = [pc |-> "done", i |-> loader.i, page |-> 0,
                           mapping |-> a.mapping,
                           memory |-> Len(memories) + 1, used |-> {}]
    /\ UNCHANGED bootVars

NextLoad ==
    \/ LoadSegment
    \/ MapPage
    \/ SetMemoryRegion
    \/ ReturnEntry
    \/ MapStack

SpecLoad == InitLoad /\ [][NextLoad]_vars

(***************************************************************************)
(* Claims about mappings.                                                  *)
(***************************************************************************)
\* Page i of the mapping's range is mapped to frame getPage(i) of the
\* mapping's Memory.
BackedByMemory(m) ==
    /\ m.memoryRegion \in DOMAIN memories
    /\ \A i \in 0..(m.length \div page_size - 1) :
           /\ i + 1 \in DOMAIN memories[m.memoryRegion]
           /\ m.baseAddress + i * page_size \in DOMAIN pageTable
           /\ pageTable[m.baseAddress + i * page_size] =
                  getPage(memories[m.memoryRegion], i)

\* loadInitImage has returned.
ImageLoaded == loader.pc \in {"stack", "done"}

\* C19: for every Mapping of type Memory, page i of the mapping's range is
\* mapped in the page tables to frame getPage(i) of the mapping's Memory;
\* and once loadInitImage has returned, each PT_LOAD segment has its
\* mapping at 0x40000000 + bottom_page * 4096, of num_pages pages, which
\* satisfies this and holds a reference to its Memory.
C19_MemoryMappingsBacked ==
    /\ \A m \in mappings : m.type = "Memory" => BackedByMemory(m)
    /\ ImageLoaded =>
           \A k \in DOMAIN image :
               Loaded(image[k]) =>
                   \E m \in mappings :
                       /\ m.baseAddress =
                              ldBaseAddr + bottom_page(image[k]) * page_size
                       /\ m.length = num_pages(image[k]) * page_size
                       /\ m.type = "Memory"
                       /\ BackedByMemory(m)

\* The mappings of the address space are pairwise disjoint.
Disjoint ==
    \A m1, m2 \in mappings :
        m1 # m2 => ~Overlaps(m1, m2.baseAddress, m2.length)

\* What allocateAt and allocate do to the set of mappings.
AllocateStep ==
    /\ (loader.pc = "segment" /\ loader'.pc = "map") =>
           LET phdr == image[loader.i + 1]
               base == ldBaseAddr + bottom_page(phdr) * page_size
               length == page_size * num_pages(phdr)
           IN IF \E m \in mappings : Overlaps(m, base, length)
              THEN mappings' = mappings /\ loader'.mapping = NullMapping
              ELSE /\ loader'.mapping = base
                   /\ mappings' = mappings \cup
                          {[baseAddress |-> base, length |-> length,
                            type |-> "Hole", memoryRegion |-> 0]}
    /\ (loader.pc = "stack" /\ loader'.pc = "done") =>
           \E m \in mappings' \ mappings :
               /\ mappings' = mappings \cup {m}
               /\ m.length = stack_size
               /\ m.type = "Hole"
               /\ \A n \in mappings : ~Overlaps(n, m.baseAddress, m.length)

\* C20: the mappings of one AddressSpace are pairwise disjoint virtual
\* ranges in every reachable state: allocate returns a range that overlaps
\* no existing mapping, and allocateAt fails and leaves the set of
\* mappings unchanged when the range overlaps an existing mapping (two
\* segments of the init image that share a page).
C20_MappingsDisjoint == [](Disjoint) /\ [][AllocateStep]_vars

\* The second segment shares a page with the first, so its allocateAt
\* failed; the stack was then allocated next to the first one's mapping.
C20_Witness ==
    /\ loader.pc = "done"
    /\ Len(image) = 2
    /\ Loaded(image[1]) /\ Loaded(image[2])
    /\ bottom_page(image[2]) = top_page(image[1])
    /\ image[1].p_vaddr # image[2].p_vaddr
    /\ Cardinality(mappings) = 2
    /\ \E m \in mappings :
          m.length = stack_size /\ m.baseAddress = ldBaseAddr + page_size

(***************************************************************************)
(* SpecLocks: the locking primitives.  Every processor runs kernel paths   *)
(* that take and release locks, and takes interrupts while its irqMutex    *)
(* does not mask them.                                                     *)
(***************************************************************************)
\* What the lock operations leave alone.
unlockedVars ==
    <<universeVars, historyVars, objectVars, ret, threadVars, ipcHistoryVars,
      serverHistoryVars, hubHistoryVars, lastCall, asyncVars, irqVars,
      spaceVars, universeCalls, kernelHeap, boot,
      temporaries, dispatch, uhci>>

Lock(l) == [op |-> "lock", lock |-> l]
Unlock(l) == [op |-> "unlock", lock |-> l]

\* IrqMutex: held while its nesting count is positive, and interrupts are
\* masked on its processor for as long.
IrqMutex_lock(cd) == [cd EXCEPT !.nesting = @ + 1]
IrqMutex_unlock(cd) == [cd EXCEPT !.nesting = @ - 1]

\* The spinlock is taken first and the irqMutex after it.
IrqSpinlock_lock_SpinlockFirst(l) == <<Lock(l), Lock("irqMutex")>>
\* IrqSpinlock::lock().
IrqSpinlock_lock(l) == <<Lock("irqMutex"), Lock(l)>>

\* IrqSpinlock::unlock().
IrqSpinlock_unlock(l) == <<Unlock(l), Unlock("irqMutex")>>

\* KernelVirtualMemory::allocate(): two guards, destroyed in reverse order
\* of their construction when the function returns.
KernelVirtualMemory_allocate ==
    <<Lock("irqMutex"), Lock("_mutex"), Unlock("_mutex"), Unlock("irqMutex")>>

\* Universe::attachDescriptor() under the caller's guard of Universe::lock:
\* _descriptorMap.insert() allocates the new entry from *kernelAlloc.
Universe_attachDescriptor ==
    <<Lock("universe")>> \o KernelVirtualMemory_allocate
        \o <<Unlock("universe")>>

\* The locks an IrqSpinlock wraps: the hub's, which thorIrq reaches.
IrqSpinlocks == {"hub"}

\* A sender holds the channel's lock and posts to the receiver's hub.
SendPath ==
    <<Lock("channel")>> \o IrqSpinlock_lock("hub") \o IrqSpinlock_unlock("hub")
        \o <<Unlock("channel")>>

\* An interrupt relay posts to the hubs of its waiters.
IrqPath == IrqSpinlock_lock("hub") \o IrqSpinlock_unlock("hub")

\* What a system call runs, and what an interrupt handler runs.
KernelPaths ==
    {KernelVirtualMemory_allocate, Universe_attachDescriptor,
     SendPath, IrqPath}

IrqPaths == {IrqPath, KernelVirtualMemory_allocate}

NewContext(path) == [path |-> path, pc |-> 1, held |-> <<>>]

Top(c) == cpuData[c].contexts[Len(cpuData[c].contexts)]

\* The processor enters the kernel from user mode.
EnterKernel(c, path) ==
    /\ cpuData[c].contexts = <<>>
    /\ cpuData' = [cpuData EXCEPT ![c].contexts = <<NewContext(path)>>]
    /\ UNCHANGED <<spinlocks, unlockedVars>>

\* An interrupt arrives: only while the irqMutex does not mask it, and not
\* inside another handler (the gate clears the interrupt flag).
Interrupt_arrives(c, path) ==
    /\ cpuData[c].nesting = 0
    /\ Len(cpuData[c].contexts) = 1
    /\ cpuData' = [cpuData EXCEPT ![c].contexts = Append(@, NewContext(path))]
    /\ UNCHANGED <<spinlocks, unlockedVars>>

\* The contexts of a processor after its top context did one operation:
\* the context is gone when that was its last.
Advance(c, held) ==
    LET n == Len(cpuData[c].contexts)
        ctx == Top(c)
    IN  IF ctx.pc = Len(ctx.path)
        THEN SubSeq(cpuData[c].contexts, 1, n - 1)
        ELSE [cpuData[c].contexts EXCEPT ![n] =
                 [ctx EXCEPT !.pc = @ + 1, !.held = held]]

Without(held, l) ==
    LET last == CHOOSE i \in DOMAIN held :
                    held[i] = l /\ \A j \in DOMAIN held : held[j] = l => j <= i
    IN  SubSeq(held, 1, last - 1) \o SubSeq(held, last + 1, Len(held))

\* The running context of a processor does its next lock operation.  A
\* lock() of a spinlock somebody holds spins: the step is not enabled.
LockStep(c) ==
    /\ cpuData[c].contexts # <<>>
    /\ LET ctx == Top(c)
           o == ctx.path[ctx.pc]
       IN  IF o.lock = "irqMutex"
           THEN /\ cpuData' =
                      [cpuData EXCEPT
                          ![c] = [(IF o.op = "lock"
                                   THEN IrqMutex_lock(@)
                                   ELSE IrqMutex_unlock(@))
                                  EXCEPT !.contexts =
                                     Advance(c, IF o.op = "lock"
                                                THEN Append(ctx.held, o.lock)
                                                ELSE Without(ctx.held,
                                                             o.lock))]]
                /\ UNCHANGED spinlocks
           ELSE IF o.op = "lock"
           THEN /\ spinlocks[o.lock] = 0
                /\ spinlocks' = [spinlocks EXCEPT ![o.lock] = c]
                /\ cpuData' =
                      [cpuData EXCEPT ![c].contexts =
                          Advance(c, Append(ctx.held, o.lock))]
           ELSE /\ spinlocks' = [spinlocks EXCEPT ![o.lock] = 0]
                /\ cpuData' =
                      [cpuData EXCEPT ![c].contexts =
                          Advance(c, Without(ctx.held, o.lock))]
    /\ UNCHANGED unlockedVars

NextLocks ==
    \/ \E c \in Cpus, path \in KernelPaths : EnterKernel(c, path)
    \/ \E c \in Cpus, path \in IrqPaths : Interrupt_arrives(c, path)
    \/ \E c \in Cpus : LockStep(c)

SpecLocks == InitUniverse /\ [][NextLocks]_vars

\* The context of a processor that spins on a spinlock, if there is one:
\* only the top context runs.
Spins(c, l) ==
    /\ cpuData[c].contexts # <<>>
    /\ Top(c).path[Top(c).pc] = Lock(l)
    /\ spinlocks[l] # 0

InHandler(c) == Len(cpuData[c].contexts) = 2

\* C21: in every reachable state in which a processor holds an IrqSpinlock,
\* the irqMutex of that processor is held (so its interrupts are masked),
\* and no interrupt handler runs on that processor on top of the holder,
\* nor spins on that lock there.
C21_IrqSpinlockMasksIrqs ==
    \A c \in Cpus, l \in IrqSpinlocks :
        spinlocks[l] = c =>
            /\ cpuData[c].nesting > 0
            /\ \A i \in DOMAIN cpuData[c].contexts :
                   (\E k \in DOMAIN cpuData[c].contexts[i].held :
                        cpuData[c].contexts[i].held[k] = l)
                       => i = Len(cpuData[c].contexts)
            /\ ~(InHandler(c) /\ Spins(c, l))

\* A processor holds the IrqSpinlock inside a system call while an interrupt
\* handler of the other processor spins on the same lock.
C21_Witness ==
    \E c, d \in Cpus, l \in IrqSpinlocks :
        /\ c # d
        /\ spinlocks[l] = c
        /\ ~InHandler(c)
        /\ InHandler(d) /\ Spins(d, l)

\* The global order of the locks: IRQ mutex, allocator, universe, channel,
\* hub.
LockRank ==
    [irqMutex |-> 0, _mutex |-> 1, universe |-> 2, channel |-> 3, hub |-> 4]

\* The spinlocks a context holds are in the global order, oldest first.
\* The irqMutex counts its nesting, belongs to one processor and never
\* makes anybody wait: taking it again at any point is not held against
\* the order.
InGlobalOrder(held) ==
    \A i, j \in DOMAIN held :
        (i < j /\ held[i] # "irqMutex" /\ held[j] # "irqMutex")
            => LockRank[held[i]] < LockRank[held[j]]

\* The processors in ps wait for each other: each spins on a lock held on
\* a processor of ps (on itself, when a handler wants what the interrupted
\* context holds).
WaitCycle(ps) ==
    /\ ps # {}
    /\ \A c \in ps : \E l \in Spinlocks : Spins(c, l) /\ spinlocks[l] \in ps

NoDeadlock == \A ps \in SUBSET Cpus : ~WaitCycle(ps)

\* C22: every kernel path takes its locks in the global order (IRQ mutex,
\* allocator, universe, channel, hub), KernelVirtualMemory::allocate the IRQ
\* mutex and then the heap mutex, and no state is reached in which each
\* party waits for a lock another one holds.
C22_GlobalLockOrder ==
    /\ \A c \in Cpus : \A i \in DOMAIN cpuData[c].contexts :
           InGlobalOrder(cpuData[c].contexts[i].held)
    /\ KernelVirtualMemory_allocate[1] = Lock("irqMutex")
    /\ KernelVirtualMemory_allocate[2] = Lock("_mutex")
    /\ NoDeadlock

(***************************************************************************)
(* SpecGuard: the threads of two processors share one Universe and call    *)
(* its operations, each under a guard of some lock.  The operations are    *)
(* taken apart into their loads and stores.                                *)
(***************************************************************************)
\* What the Universe operations of this section leave alone.
guardedVars ==
    <<attached, detached, lastOp, objectVars, ret, threadVars, ipcHistoryVars,
      serverHistoryVars, hubHistoryVars, lastCall, asyncVars, irqVars,
      spaceVars, cpuData, kernelHeap, boot,
      temporaries, dispatch, uhci>>

\* The locks a caller's guard may be of.
GuardLocks == {"universe", "channel"}

\* frigg::guard(&lock) in the caller: the lock is taken (the caller spins
\* while it is held), then the Universe operation is called.
GuardEnter(c, op, l, arg) ==
    /\ ~panicked
    /\ universeCalls[c].pc = "idle"
    /\ op = "attach" => nextHandle <= MaxHandle
    /\ spinlocks[l] = 0
    /\ spinlocks' = [spinlocks EXCEPT ![l] = c]
    /\ universeCalls' =
          [universeCalls EXCEPT
              ![c] = [pc |-> "assert", op |-> op, guard |-> l, arg |-> arg,
                      handle |-> @.handle]]
    /\ UNCHANGED <<universeVars, issued, guardedVars>>

\* assert(guard.protects(&lock)).
AssertGuard(c) ==
    /\ ~panicked
    /\ universeCalls[c].pc = "assert"
    /\ IF GuardProtects(universeCalls[c].guard)
       THEN /\ universeCalls' = [universeCalls EXCEPT ![c].pc = "body"]
            /\ UNCHANGED panicked
       ELSE /\ panicked' = TRUE
            /\ UNCHANGED universeCalls
    /\ UNCHANGED <<descriptorMap, nextHandle, issued, spinlocks, guardedVars>>

\* Handle handle = _nextHandle++: the load.
AttachLoad(c) ==
    /\ ~panicked
    /\ universeCalls[c].pc = "body" /\ universeCalls[c].op = "attach"
    /\ universeCalls' =
          [universeCalls EXCEPT ![c].pc = "store", ![c].handle = nextHandle]
    /\ UNCHANGED <<universeVars, issued, spinlocks, guardedVars>>

\* Handle handle = _nextHandle++: the store.
AttachStore(c) ==
    /\ ~panicked
    /\ universeCalls[c].pc = "store"
    /\ nextHandle' = universeCalls[c].handle + 1
    /\ universeCalls' = [universeCalls EXCEPT ![c].pc = "insert"]
    /\ UNCHANGED <<descriptorMap, panicked, issued, spinlocks, guardedVars>>

\* _descriptorMap.insert(handle, frigg::move(descriptor)); return handle.
AttachInsert(c) ==
    /\ ~panicked
    /\ universeCalls[c].pc = "insert"
    /\ LET handle == universeCalls[c].handle
       IN  /\ descriptorMap' =
                 [h \in (DOMAIN descriptorMap) \cup {handle} |->
                     IF h = handle
                     THEN AnyDescriptor("MemoryAccess", universeCalls[c].arg)
                     ELSE descriptorMap[h]]
           /\ issued' = Append(issued, handle)
    /\ universeCalls' = [universeCalls EXCEPT ![c].pc = "return"]
    /\ UNCHANGED <<nextHandle, panicked, spinlocks, guardedVars>>

\* return _descriptorMap.get(handle); return _descriptorMap.remove(handle).
LookupBody(c) ==
    /\ ~panicked
    /\ universeCalls[c].pc = "body" /\ universeCalls[c].op # "attach"
    /\ descriptorMap' =
          IF universeCalls[c].op = "detach"
          THEN detachDescriptor(TheUniverse, universeCalls[c].arg).u.map
          ELSE descriptorMap
    /\ universeCalls' = [universeCalls EXCEPT ![c].pc = "return"]
    /\ UNCHANGED <<nextHandle, panicked, issued, spinlocks, guardedVars>>

\* The operation returned and the caller's guard goes out of scope.
GuardLeave(c) ==
    /\ ~panicked
    /\ universeCalls[c].pc = "return"
    /\ spinlocks' = [spinlocks EXCEPT ![universeCalls[c].guard] = 0]
    /\ universeCalls' = [universeCalls EXCEPT ![c].pc = "idle"]
    /\ UNCHANGED <<universeVars, issued, guardedVars>>

NextGuard ==
    \/ \E c \in Cpus, l \in GuardLocks, arg \in 1..2 :
          GuardEnter(c, "attach", l, arg)
    \/ \E c \in Cpus, l \in GuardLocks, arg \in 1..2 :
          GuardEnter(c, "get", l, arg)
    \/ \E c \in Cpus, l \in GuardLocks, arg \in 1..2 :
          GuardEnter(c, "detach", l, arg)
    \/ \E c \in Cpus : AssertGuard(c)
    \/ \E c \in Cpus : AttachLoad(c)
    \/ \E c \in Cpus : AttachStore(c)
    \/ \E c \in Cpus : AttachInsert(c)
    \/ \E c \in Cpus : LookupBody(c)
    \/ \E c \in Cpus : GuardLeave(c)

SpecGuard == InitUniverse /\ [][NextGuard]_vars

\* The thread of processor c is past the assertion of a Universe operation:
\* it reads or writes _descriptorMap and _nextHandle.
InUniverse(c) == universeCalls[c].pc \in {"body", "store", "insert", "return"}

\* C23: the descriptor map and the next-handle counter are read and written
\* only by a caller that holds the lock of the Universe (a guard of another
\* lock stops at the assertion), so two threads are never inside the
\* operations at once and no handle is handed out twice.
C23_UniverseLockProtects ==
    /\ \A c \in Cpus : InUniverse(c) => spinlocks["universe"] = c
    /\ \A c, d \in Cpus : (InUniverse(c) /\ InUniverse(d)) => c = d
    /\ \A i, j \in DOMAIN issued : issued[i] = issued[j] => i = j

\* Both threads attached a descriptor, and one of them is inside another
\* attach, between the load and the store of _nextHandle, while the other
\* is outside the operations.
C23_Witness ==
    \E c, d \in Cpus :
        /\ c # d
        /\ universeCalls[c].pc = "store"
        /\ universeCalls[d].pc = "idle"
        /\ universeCalls[d].handle # 0
        /\ Len(issued) >= 2

(***************************************************************************)
(* SpecHeap: KernelVirtualAlloc, the backing of the kernel heap.  The heap *)
(* is a run of MaxHeapPages pages of kernel virtual memory (addresses are  *)
(* offsets from its base) and the physical allocator owns MaxFrames        *)
(* frames.                                                                 *)
(***************************************************************************)
MaxHeapPages == 4
MaxFrames == 4
kPageSize == 4096

\* What the kernel heap leaves alone.
heapRestVars ==
    <<universeVars, historyVars, objectVars, ret, threadVars, ipcHistoryVars,
      serverHistoryVars, hubHistoryVars, lastCall, asyncVars, irqVars,
      spaceVars, cpuData, spinlocks, universeCalls, boot,
      temporaries, dispatch, uhci>>

Frames == 1..MaxFrames

\* physicalAllocator and kernelAlloc are initialized: every frame is free,
\* no heap page is reserved or mapped, no run was handed out.
NewKernelHeap ==
    [pc |-> "ready", free |-> Frames, pages |-> <<>>, reserved |-> {},
     runs |-> {}, last |-> [op |-> "none", address |-> 0, length |-> 0]]

\* The offsets the loops of map() and unmap() visit:
\* for(offset = 0; offset < length; offset += kPageSize).
Offsets(length) ==
    {o \in 0..(length - 1) : o % kPageSize = 0}

\* _buddy.allocate(length): the lowest run of unreserved pages that holds
\* length bytes.
buddyAllocate(reserved, length) ==
    LET fits(a) == \A o \in Offsets(length) :
                       /\ a + (o \div kPageSize) < MaxHeapPages
                       /\ (a + (o \div kPageSize)) \notin reserved
        a0 == CHOOSE a \in 0..(MaxHeapPages - 1) :
                  fits(a) /\ \A b \in 0..(a - 1) : ~fits(b)
    IN  a0 * kPageSize

CanAllocate(reserved, length) ==
    \E a \in 0..(MaxHeapPages - 1) :
        \A o \in Offsets(length) :
            /\ a + (o \div kPageSize) < MaxHeapPages
            /\ (a + (o \div kPageSize)) \notin reserved

\* unmap() with the call of physicalAllocator->free() in its loop.
KernelVirtualAlloc_unmap_Freeing(h, address, length) ==
    LET gone == {address + o : o \in Offsets(length)}
    IN  [h EXCEPT
            !.pages = [v \in (DOMAIN h.pages) \ gone |-> h.pages[v]],
            !.free = @ \cup {h.pages[v].physical : v \in gone},
            !.runs = @ \ {[address |-> address, length |-> length]},
            !.last = [op |-> "unmap", address |-> address,
                      length |-> length]]

\* KernelVirtualAlloc::unmap(): every page of the run is unmapped; the
\* frame unmapSingle4k() returns is dropped (the call of free() is
\* commented out).
KernelVirtualAlloc_unmap(h, address, length) ==
    LET gone == {address + o : o \in Offsets(length)}
    IN  [h EXCEPT
            !.pages = [v \in (DOMAIN h.pages) \ gone |-> h.pages[v]],
            !.runs = @ \ {[address |-> address, length |-> length]},
            !.last = [op |-> "unmap", address |-> address,
                      length |-> length]]

\* KernelVirtualAlloc::map(): a run from KernelVirtualMemory::allocate(),
\* and for each of its pages a frame from the physical allocator (backing
\* says which) mapped writable.
KernelVirtualAlloc_map(h, length, backing) ==
    LET p == buddyAllocate(h.reserved, length)
        new == {p + o : o \in Offsets(length)}
    IN  [h EXCEPT
            !.reserved = @ \cup {v \div kPageSize : v \in new},
            !.free = @ \ {backing[o] : o \in Offsets(length)},
            !.pages = [v \in (DOMAIN h.pages) \cup new |->
                          IF v \in new
                          THEN [physical |-> backing[v - p],
                                access |-> "write"]
                          ELSE h.pages[v]],
            !.runs = @ \cup {[address |-> p, length |-> length]},
            !.last = [op |-> "map", address |-> p, length |-> length]]

\* physicalAllocator->allocate(0x1000), once per page of the loop: each
\* call takes a frame that is free at that point.
Backings(free, length) ==
    {b \in [Offsets(length) -> free] :
        \A o1, o2 \in Offsets(length) : b[o1] = b[o2] => o1 = o2}

HeapInitialize ==
    /\ kernelHeap = NoKernelHeap
    /\ kernelHeap' = NewKernelHeap
    /\ UNCHANGED heapRestVars

HeapMap(length) ==
    /\ kernelHeap.pc = "ready"
    /\ CanAllocate(kernelHeap.reserved, length)
    /\ \E backing \in Backings(kernelHeap.free, length) :
          kernelHeap' = KernelVirtualAlloc_map(kernelHeap, length, backing)
    /\ UNCHANGED heapRestVars

HeapUnmap(run) ==
    /\ kernelHeap.pc = "ready"
    /\ run \in kernelHeap.runs
    /\ kernelHeap' = KernelVirtualAlloc_unmap(kernelHeap, run.address,
                                              run.length)
    /\ UNCHANGED heapRestVars

MapLengths == {kPageSize, 2 * kPageSize}

NextHeap ==
    \/ HeapInitialize
    \/ \E length \in MapLengths : HeapMap(length)
    \/ \E a \in 0..(MaxHeapPages - 1), length \in MapLengths :
          HeapUnmap([address |-> a * kPageSize, length |-> length])

SpecHeap == InitUniverse /\ [][NextHeap]_vars

RunPages(h) == {h.last.address + o : o \in Offsets(h.last.length)}

\* C24: map(length) backs every page of the run it returns with a frame of
\* its own that was free before, mapped writable; unmap(address, length) of
\* that run removes every one of those mappings and gives each backing
\* frame back to the physical allocator, so the free frames after the unmap
\* are those before it and the frames that backed the run.
C24_MapUnmapReversible ==
    [][/\ kernelHeap'.last.op = "map" =>
             /\ \A v \in RunPages(kernelHeap') :
                    /\ v \in DOMAIN kernelHeap'.pages
                    /\ v \notin DOMAIN kernelHeap.pages
                    /\ kernelHeap'.pages[v].access = "write"
                    /\ kernelHeap'.pages[v].physical \in kernelHeap.free
                    /\ kernelHeap'.pages[v].physical \notin kernelHeap'.free
             /\ \A v, w \in RunPages(kernelHeap') :
                    kernelHeap'.pages[v].physical
                        = kernelHeap'.pages[w].physical => v = w
       /\ kernelHeap'.last.op = "unmap" =>
             /\ \A v \in RunPages(kernelHeap') :
                    v \notin DOMAIN kernelHeap'.pages
             /\ kernelHeap'.free =
                    kernelHeap.free \cup
                        {kernelHeap.pages[v].physical :
                            v \in RunPages(kernelHeap')}]_vars

(***************************************************************************)
(* SpecHeapInit: the constructor of KernelVirtualMemory, for the overhead  *)
(* values computeOverhead() may return.  Addresses are offsets from        *)
(* original_base (0xFFFF800000000000, a multiple of 2^coarse_shift).       *)
(***************************************************************************)
original_base == 0
original_size == 1073741824
kPageShift == 12
fine_shift == kPageShift + 4
coarse_shift == kPageShift + 12

\* uintptr_t(1) << coarse_shift.
Coarse == 2 ^ coarse_shift

\* Whole coarse chunks an overhead of the model may span.
MaxOverheadChunks == 61

\* The values of overhead: up to MaxOverheadChunks coarse chunks and a
\* rest that is zero, small, around half a chunk, or nearly a whole one,
\* on and off page boundaries.
Overheads ==
    {q * Coarse + m :
        q \in 0..MaxOverheadChunks,
        m \in {0, 1, kPageSize - 1, kPageSize, kPageSize + 1,
               2 ^ fine_shift, (Coarse \div 2) - 1, Coarse \div 2,
               (Coarse \div 2) + 1, Coarse - kPageSize, Coarse - 1}}

\* The alignment without the last statement (length stays as it is).
KernelVirtualMemory_align_NoShrink(base, length) ==
    LET misalign == base % Coarse
    IN  IF misalign # 0
        THEN [base |-> base + (Coarse - misalign),
              length |-> length - misalign]
        ELSE [base |-> base, length |-> length]

\* align the base to the next coarse boundary; shrink the length to the
\* next coarse boundary.
KernelVirtualMemory_align(base, length) ==
    LET misalign == base % Coarse
        b == IF misalign # 0 THEN base + (Coarse - misalign) ELSE base
        l == IF misalign # 0 THEN length - misalign ELSE length
    IN  [base |-> b, length |-> l - (l % Coarse)]

\* The constructor up to the alignment: overhead, base and length.
HeapCompute(overhead) ==
    /\ kernelHeap = NoKernelHeap
    /\ kernelHeap' =
          [pc |-> "align", overhead |-> overhead,
           base |-> original_base + overhead,
           length |-> original_size - overhead,
           mapped |-> 0, chunk |-> <<>>]
    /\ UNCHANGED heapRestVars

HeapAlign ==
    /\ kernelHeap.pc = "align"
    /\ LET r == KernelVirtualMemory_align(kernelHeap.base, kernelHeap.length)
       IN  kernelHeap' = [kernelHeap EXCEPT !.pc = "map", !.base = r.base,
                                            !.length = r.length]
    /\ UNCHANGED heapRestVars

\* for(offset = 0; offset < overhead; offset += kPageSize) mapSingle4k(
\* original_base + offset, ...): the pages from original_base on, one for
\* each offset the loop visits.
HeapMapOverhead ==
    /\ kernelHeap.pc = "map"
    /\ kernelHeap' =
          [kernelHeap EXCEPT
              !.pc = "chunk",
              !.mapped = (kernelHeap.overhead + kPageSize - 1)
                             \div kPageSize]
    /\ UNCHANGED heapRestVars

\* _buddy.addChunk(base, length, fine_shift, coarse_shift, original_base).
HeapAddChunk ==
    /\ kernelHeap.pc = "chunk"
    /\ kernelHeap' =
          [kernelHeap EXCEPT
              !.pc = "done",
              !.chunk = <<[base |-> kernelHeap.base,
                           length |-> kernelHeap.length]>>]
    /\ UNCHANGED heapRestVars

NextHeapInit ==
    \/ \E overhead \in Overheads : HeapCompute(overhead)
    \/ HeapAlign
    \/ HeapMapOverhead
    \/ HeapAddChunk

SpecHeapInit == InitUniverse /\ [][NextHeapInit]_vars

\* C25: when the chunk is added every page of the metadata region
\* [original_base, original_base + overhead) is mapped already; the chunk
\* [base, base + length) does not meet the metadata region, lies inside
\* [original_base, original_base + original_size), and its base and length
\* are multiples of 2^coarse_shift.
C25_ChunkExcludesMetadata ==
    [][kernelHeap'.pc = "done" =>
          /\ kernelHeap.pc = "chunk"
          /\ kernelHeap.mapped * kPageSize >= kernelHeap.overhead
          /\ \A c \in {kernelHeap'.chunk[1]} :
                /\ c.base >= original_base + kernelHeap.overhead
                /\ c.length >= 0
                /\ c.base + c.length <= original_base + original_size
                /\ c.base % Coarse = 0
                /\ c.length % Coarse = 0]_vars

\* The chunk was added for an overhead that ends off a coarse boundary and
\* off a page boundary: the base was moved up and the last metadata page is
\* mapped in part.
C25_Witness ==
    /\ kernelHeap.pc = "done"
    /\ kernelHeap.overhead % kPageSize # 0
    /\ kernelHeap.overhead > Coarse
    /\ kernelHeap.chunk[1].base > original_base + kernelHeap.overhead
    /\ kernelHeap.chunk[1].length > 0

(***************************************************************************)
(* SpecBoot: thorMain from the module table to the first schedule(), with  *)
(* init images of one program header.                                      *)
(***************************************************************************)
\* What thorMain leaves alone after the init image is loaded.
handoffVars ==
    <<attached, detached, lastOp, objectVars, ret, now, ipcHistoryVars,
      serverHistoryVars, hubHistoryVars, lastCall, asyncVars, irqVars,
      image, loader, mappings, pageTable, frameData, cpuData, spinlocks,
      universeCalls, kernelHeap,
      temporaries, dispatch, uhci>>

InitHandoff == InitLoad /\ Len(image) = 1

\* The module tables Eir hands over: the number of modules, e_entry of
\* module 0, and where module 1 lies and how long it is.
ModuleTables ==
    {[numModules |-> n, e_entry |-> e, physicalBase |-> b, length |-> l] :
        n \in {1, 2}, e \in {0, page_size + 16},
        b \in {stack_size, 2 * stack_size},
        l \in {1, page_size, page_size + 1}}

\* The pages of program_memory, without the page a rest of module 1 needs.
ProgramPages_Floor(physicalBase, length) ==
    [k \in 1..(length \div page_size) |-> physicalBase + (k - 1) * page_size]

\* for(offset = 0; offset < modules[1].length; offset += 0x1000)
\*     program_memory->addPage(modules[1].physicalBase + offset).
ProgramPages(physicalBase, length) ==
    [k \in 1..((length + page_size - 1) \div page_size) |->
        physicalBase + (k - 1) * page_size]

\* ASSERT(info->numModules >= 2); modules = accessPhysicalN(...).
ReadModules(table) ==
    /\ ~panicked
    /\ boot = NoBoot
    /\ loader.pc = "segment" /\ loader.i = 0
    /\ boot' = [pc |-> "load", modules |-> table, program_handle |-> 0,
                thread |-> <<>>]
    /\ panicked' = (table.numModules < 2)
    /\ UNCHANGED <<descriptorMap, nextHandle, issued, threads, scheduleQueue,
                   currentThread, memories, handoffVars>>

\* loadInitImage and the user stack.
BootLoad ==
    /\ boot # NoBoot
    /\ NextLoad

\* program_memory, program_descriptor, and its handle.
AttachProgram ==
    /\ ~panicked
    /\ boot # NoBoot /\ boot.pc = "load"
    /\ loader.pc = "done"
    /\ LET program_memory == ProgramPages(boot.modules.physicalBase,
                                          boot.modules.length)
           r == attachDescriptor(TheUniverse,
                    AnyDescriptor("MemoryAccess", Len(memories) + 1))
       IN  /\ memories' = Append(memories, program_memory)
           /\ descriptorMap' = r.u.map
           /\ nextHandle' = r.u.next
           /\ issued' = Append(issued, r.handle)
           /\ boot' = [boot EXCEPT !.pc = "thread",
                                   !.program_handle = r.handle]
    /\ UNCHANGED <<panicked, threads, scheduleQueue, currentThread,
                   handoffVars>>

\* thread->setup(entry, program_handle, stack_mapping->baseAddress +
\* stack_size), with the entry loadInitImage returned.
SetupThread ==
    /\ ~panicked
    /\ boot # NoBoot /\ boot.pc = "thread"
    /\ threads' = <<NewThread>>
    /\ boot' = [boot EXCEPT
                   !.pc = "queue",
                   !.thread = [entry |-> ldBaseAddr + boot.modules.e_entry,
                               argument |-> boot.program_handle,
                               stack |-> loader.mapping + stack_size]]
    /\ UNCHANGED <<universeVars, issued, scheduleQueue, currentThread,
                   memories, handoffVars>>

\* currentThread.initialize(null); scheduleQueue.initialize();
\* scheduleQueue->addBack(thread).
QueueThread ==
    /\ ~panicked
    /\ boot # NoBoot /\ boot.pc = "queue"
    /\ currentThread' = 0
    /\ scheduleQueue' = <<1>>
    /\ boot' = [boot EXCEPT !.pc = "schedule"]
    /\ UNCHANGED <<universeVars, issued, threads, memories, handoffVars>>

\* schedule().
BootSchedule ==
    /\ ~panicked
    /\ boot # NoBoot /\ boot.pc = "schedule"
    /\ LET r == schedule(threads, scheduleQueue, currentThread)
       IN  /\ threads' = r.threads
           /\ scheduleQueue' = r.queue
           /\ currentThread' = r.current
    /\ boot' = [boot EXCEPT !.pc = "running"]
    /\ UNCHANGED <<universeVars, issued, memories, handoffVars>>

NextBoot ==
    \/ \E table \in ModuleTables : ReadModules(table)
    \/ BootLoad
    \/ AttachProgram
    \/ SetupThread
    \/ QueueThread
    \/ BootSchedule

SpecBoot == InitHandoff /\ [][NextBoot]_vars

\* thorMain is about to call schedule().
AtFirstSchedule == boot # NoBoot /\ boot.pc = "schedule"

\* C26: when schedule() is called first, the ready queue holds one thread
\* and no thread is current; the thread's entry is 0x40000000 + e_entry of
\* module 0, its stack pointer is the top of a 2 MiB stack whose pages are
\* all mapped to the frames of the new stack Memory, and its first
\* argument is a nonzero handle that its Universe resolves to a
\* MemoryAccess descriptor of a Memory whose page i is
\* modules[1].physicalBase + i * 4096, for every page of module 1.
C26_BootHandoff ==
    AtFirstSchedule =>
        /\ Len(scheduleQueue) = 1 /\ Len(threads) = 1
        /\ currentThread = 0
        /\ boot.thread.entry = 1073741824 + boot.modules.e_entry
        /\ \E m \in mappings :
              /\ m.length = 2097152
              /\ boot.thread.stack = m.baseAddress + m.length
              /\ \A i \in 0..(m.length \div 4096 - 1) :
                    /\ m.baseAddress + i * 4096 \in DOMAIN pageTable
                    /\ pageTable[m.baseAddress + i * 4096] =
                           getPage(memories[loader.memory], i)
        /\ boot.thread.argument # 0
        /\ LET d == getDescriptor(TheUniverse, boot.thread.argument)
           IN  /\ d.type = "MemoryAccess"
               /\ d.obj \in DOMAIN memories
               /\ \A i \in 0..(boot.modules.length - 1) :
                     i % 4096 = 0 =>
                         /\ (i \div 4096) + 1 \in DOMAIN memories[d.obj]
                         /\ getPage(memories[d.obj], i \div 4096) =
                                boot.modules.physicalBase + i

\* schedule() is about to be called for an image with a loaded segment, an
\* entry off the image's start, and a module 1 that ends inside a page.
C26_Witness ==
    /\ AtFirstSchedule
    /\ Loaded(image[1])
    /\ boot.modules.e_entry # 0
    /\ boot.modules.length = page_size + 1

(***************************************************************************)
(* SpecMove: AnyDescriptor objects are constructed, moved into the         *)
(* Universe's map and out of it, assigned to each other and destroyed.     *)
(***************************************************************************)
\* What the moves leave alone.
moveRestVars ==
    <<panicked, objectVars, ret, threadVars, ipcHistoryVars,
      serverHistoryVars, hubHistoryVars, lastCall, asyncVars, irqVars,
      spaceVars, cpuData, spinlocks, universeCalls, kernelHeap, boot,
      dispatch, uhci>>

\* enum Type of AnyDescriptor.
AnyDescriptorTypes ==
    {"MemoryAccess", "BiDirectionFirst", "BiDirectionSecond"}

\* A move that leaves the tag behind: the new object is a MemoryAccess.
AnyDescriptor_move_Retag(other) == [type |-> "MemoryAccess", obj |-> other.obj]

\* AnyDescriptor(AnyDescriptor &&other) and operator=(AnyDescriptor
\* &&other): the tag and the member of the union come from other.
AnyDescriptor_move(other) == [type |-> other.type, obj |-> other.obj]

\* What a move leaves in its source: the tag stays, the member is empty.
MovedFrom(other) == [type |-> other.type, obj |-> 0]

IsLive(d) == d.type # "none" /\ d.obj # 0

\* AnyDescriptor(XDescriptor &&descriptor).
ConstructTemp(i, type) ==
    /\ temporaries[i] = NoObject
    /\ nextHandle < MaxHandle
    /\ temporaries' = [temporaries EXCEPT ![i] = AnyDescriptor(type, 1)]
    /\ UNCHANGED <<descriptorMap, nextHandle, historyVars, moveRestVars>>

\* a = move(b) between two objects the kernel holds.
MoveAssignTemp(i, j) ==
    /\ i # j
    /\ temporaries[i] # NoObject
    /\ IsLive(temporaries[j])
    /\ temporaries' =
          [temporaries EXCEPT ![i] = AnyDescriptor_move(temporaries[j]),
                              ![j] = MovedFrom(temporaries[j])]
    /\ UNCHANGED <<descriptorMap, nextHandle, historyVars, moveRestVars>>

\* ~AnyDescriptor().
DestroyTemp(i) ==
    /\ temporaries[i] # NoObject
    /\ temporaries' = [temporaries EXCEPT ![i] = NoObject]
    /\ UNCHANGED <<descriptorMap, nextHandle, historyVars, moveRestVars>>

\* attachDescriptor(guard, move(temp)): the parameter is move-constructed
\* from the caller's object and insert() moves it into the map; the
\* caller's object is destroyed when the call is over.
AttachMove(i) ==
    /\ IsLive(temporaries[i])
    /\ nextHandle < MaxHandle
    /\ LET parameter == AnyDescriptor_move(temporaries[i])
           r == attachDescriptor(TheUniverse, AnyDescriptor_move(parameter))
       IN  /\ descriptorMap' = r.u.map
           /\ nextHandle' = r.u.next
           /\ attached' = [h \in (DOMAIN attached) \cup {r.handle} |->
                              IF h = r.handle THEN temporaries[i]
                              ELSE attached[h]]
           /\ issued' = Append(issued, r.handle)
           /\ lastOp' = [op |-> "attach", handle |-> r.handle,
                         result |-> temporaries[i]]
    /\ temporaries' = [temporaries EXCEPT ![i] = NoObject]
    /\ UNCHANGED <<detached, moveRestVars>>

\* getDescriptor(guard, handle): a pointer to the object in the map.
GetStored(handle) ==
    /\ lastOp' = [op |-> "get", handle |-> handle,
                  result |-> getDescriptor(TheUniverse, handle)]
    /\ UNCHANGED <<descriptorMap, nextHandle, attached, detached, issued,
                   temporaries, moveRestVars>>

\* detachDescriptor(guard, handle): the Optional the caller gets is
\* move-constructed from the object in the map, which is destroyed.
DetachMove(i, handle) ==
    /\ temporaries[i] = NoObject
    /\ handle \in DOMAIN descriptorMap
    /\ LET r == detachDescriptor(TheUniverse, handle)
       IN  /\ descriptorMap' = r.u.map
           /\ nextHandle' = r.u.next
           /\ temporaries' =
                 [temporaries EXCEPT ![i] = AnyDescriptor_move(r.result)]
           /\ lastOp' = [op |-> "detach", handle |-> handle,
                         result |-> r.result]
    /\ detached' = detached \cup {handle}
    /\ UNCHANGED <<attached, issued, moveRestVars>>

\* The map grows: every object moves to its place in the new table.
Rehash ==
    /\ descriptorMap # <<>>
    /\ lastOp.op = "attach"
    /\ descriptorMap' =
          [h \in DOMAIN descriptorMap |-> AnyDescriptor_move(descriptorMap[h])]
    /\ lastOp' = [lastOp EXCEPT !.op = "rehash"]
    /\ UNCHANGED <<nextHandle, attached, detached, issued, temporaries,
                   moveRestVars>>

NextMove ==
    \/ \E i \in TempSlots, type \in AnyDescriptorTypes : ConstructTemp(i, type)
    \/ \E i, j \in TempSlots : MoveAssignTemp(i, j)
    \/ \E i \in TempSlots : DestroyTemp(i)
    \/ \E i \in TempSlots : AttachMove(i)
    \/ \E h \in DOMAIN descriptorMap : GetStored(h)
    \/ \E i \in TempSlots, h \in DOMAIN descriptorMap : DetachMove(i, h)
    \/ Rehash

SpecMove == InitUniverse /\ [][NextMove]_vars

dispatchRestVars ==
    <<universeVars, historyVars, objectVars, ret, threadVars, ipcHistoryVars,
      serverHistoryVars, hubHistoryVars, lastCall, asyncVars, irqVars,
      spaceVars, cpuData, spinlocks, universeCalls, kernelHeap, boot,
      temporaries, uhci>>

Case(index, op, exit, words) ==
    [index |-> index, op |-> op, exit |-> exit, words |-> words]

\* The cases of the switch, in the order of the source: the operation a
\* case calls, the function its last statement calls, and the words it
\* passes to it.
Cases ==
    <<Case("Log", "helLog", "thorRtReturnSyscall1", <<"error">>),
      Case("Panic", "helLog", "while(true)", <<>>),
      Case("CloseDescriptor", "helCloseDescriptor", "thorRtReturnSyscall1",
           <<"error">>),
      Case("AllocateMemory", "helAllocateMemory", "thorRtReturnSyscall2",
           <<"error", "handle">>),
      Case("MapMemory", "helMapMemory", "thorRtReturnSyscall2",
           <<"error", "actual_pointer">>),
      Case("MemoryInfo", "helMemoryInfo", "thorRtReturnSyscall2",
           <<"error", "size">>),
      Case("CreateThread", "helCreateThread", "thorRtReturnSyscall2",
           <<"error", "handle">>),
      Case("ExitThisThread", "helExitThisThread", "schedule", <<>>),
      Case("CreateEventHub", "helCreateEventHub", "thorRtReturnSyscall2",
           <<"error", "handle">>),
      Case("WaitForEvents", "helWaitForEvents", "thorRtReturnSyscall2",
           <<"error", "num_items">>),
      Case("CreateBiDirectionPipe", "helCreateBiDirectionPipe",
           "thorRtReturnSyscall3", <<"error", "first", "second">>),
      Case("SendString", "helSendString", "thorRtReturnSyscall1",
           <<"error">>),
      Case("SubmitRecvString", "helSubmitRecvString", "thorRtReturnSyscall1",
           <<"error">>),
      Case("CreateServer", "helCreateServer", "thorRtReturnSyscall3",
           <<"error", "server_handle", "client_handle">>),
      Case("SubmitAccept", "helSubmitAccept", "thorRtReturnSyscall1",
           <<"error">>),
      Case("SubmitConnect", "helSubmitConnect", "thorRtReturnSyscall1",
           <<"error">>),
      Case("AccessIrq", "helAccessIrq", "thorRtReturnSyscall2",
           <<"error", "handle">>),
      Case("SubmitWaitForIrq", "helSubmitWaitForIrq", "thorRtReturnSyscall1",
           <<"error">>),
      Case("AccessIo", "helAccessIo", "thorRtReturnSyscall2",
           <<"error", "handle">>),
      Case("EnableIo", "helEnableIo", "thorRtReturnSyscall1", <<"error">>)>>

\* The position of `default:`.
DefaultCase == Len(Cases) + 1

\* switch(index).
Switch(index) ==
    IF \E k \in DOMAIN Cases : Cases[k].index = index
    THEN CHOOSE k \in DOMAIN Cases : Cases[k].index = index
    ELSE DefaultCase

\* (a schedule() that comes back to its caller)
NoReturn_ScheduleReturns ==
    {"thorRtReturnSyscall1", "thorRtReturnSyscall2", "thorRtReturnSyscall3",
     "while(true)"}

\* The functions that never come back to thorSyscall: the trap returns,
\* schedule() (it trap-returns into the chosen thread, or halts until a
\* wake-up and retries) and the endless loop.
NoReturn ==
    {"thorRtReturnSyscall1", "thorRtReturnSyscall2", "thorRtReturnSyscall3",
     "schedule", "while(true)"}

\* The system call trap: thorSyscall(index, ...) starts at its switch.
SyscallTrap(index) ==
    /\ dispatch.pc \in {"user", "left"}
    /\ dispatch' = [pc |-> "case", index |-> index, case |-> Switch(index),
                    error |-> "none", invoked |-> <<>>, exits |-> <<>>]
    /\ UNCHANGED dispatchRestVars

\* The first statement of a case: HelError error = hel...(...).
InvokeCase(error) ==
    /\ dispatch.pc = "case"
    /\ dispatch.case # DefaultCase
    /\ dispatch' = [dispatch EXCEPT
                       !.pc = "exit", !.error = error,
                       !.invoked = Append(@, Cases[dispatch.case].op)]
    /\ UNCHANGED dispatchRestVars

\* The last statement of a case.  After it comes the next case.
ExitCase ==
    /\ dispatch.pc = "exit"
    /\ LET c == Cases[dispatch.case]
           words == [k \in DOMAIN c.words |->
                        IF c.words[k] = "error" THEN dispatch.error
                        ELSE c.words[k]]
       IN  dispatch' =
              [dispatch EXCEPT
                  !.pc = IF c.exit \notin NoReturn THEN "case"
                         ELSE IF c.exit = "while(true)" THEN "hung"
                         ELSE "left",
                  !.case = IF c.exit \notin NoReturn THEN @ + 1 ELSE @,
                  !.exits = Append(@, [exit |-> c.exit, words |-> words])]
    /\ UNCHANGED dispatchRestVars

\* default: ASSERT(!"Illegal syscall").
DefaultAssert ==
    /\ dispatch.pc = "case"
    /\ dispatch.case = DefaultCase
    /\ dispatch' = [dispatch EXCEPT !.pc = "halted"]
    /\ UNCHANGED dispatchRestVars

NextDispatch ==
    \/ \E index \in kHelCalls \cup IllegalIndices : SyscallTrap(index)
    \/ \E error \in {"Ok", "IllegalHandle", "NoSuchObject"} : InvokeCase(error)
    \/ ExitCase
    \/ DefaultAssert

SpecDispatch == InitUniverse /\ [][NextDispatch]_vars

\* The Hel operation of an index, and the result words its call returns
\* (none for the two calls that never return).
OperationOf(index) == IF index = "Panic" THEN "helLog" ELSE "hel" \o index

ResultWords ==
    [index \in kHelCalls |->
        IF index \in {"Panic", "ExitThisThread"} THEN 0
        ELSE IF index \in {"CreateBiDirectionPipe", "CreateServer"} THEN 3
        ELSE IF index \in {"AllocateMemory", "MapMemory", "MemoryInfo",
                           "CreateThread", "CreateEventHub", "WaitForEvents",
                           "AccessIrq", "AccessIo"} THEN 2
        ELSE 1]

\* C28: for a known index thorSyscall calls the one Hel operation of that
\* index and no other, and then leaves the kernel once: by a trap return
\* with 1, 2 or 3 words whose first is the error, by schedule() for
\* ExitThisThread, or not at all for Panic; for an unknown index it calls
\* no operation and halts at the assertion; control never reaches the end
\* of the function.
C28_OneOperationOneExit ==
    /\ dispatch.pc \in {"user", "case", "exit", "left", "hung", "halted"}
    /\ Len(dispatch.invoked) <= 1 /\ Len(dispatch.exits) <= 1
    /\ dispatch.pc \in {"exit", "left", "hung"} =>
           /\ dispatch.index \in kHelCalls
           /\ dispatch.invoked = <<OperationOf(dispatch.index)>>
    /\ dispatch.pc = "left" =>
           LET e == dispatch.exits[1]
               n == ResultWords[dispatch.index]
           IN  IF dispatch.index = "ExitThisThread"
               THEN e.exit = "schedule" /\ e.words = <<>>
               ELSE /\ n \in 1..3
                    /\ e.exit = "thorRtReturnSyscall" \o ToString(n)
                    /\ Len(e.words) = n
                    /\ e.words[1] = dispatch.error
    /\ dispatch.pc = "hung" <=>
           (dispatch.index = "Panic" /\ dispatch.exits # <<>>)
    /\ dispatch.pc = "halted" =>
           /\ dispatch.index \notin kHelCalls
           /\ dispatch.invoked = <<>> /\ dispatch.exits = <<>>
    /\ (dispatch.pc = "case" /\ dispatch.index \in kHelCalls) =>
           /\ dispatch.case # DefaultCase
           /\ Cases[dispatch.case].index = dispatch.index
           /\ dispatch.invoked = <<>>

\* The kernel was left by schedule() after helExitThisThread, the call
\* whose case is followed by another.
C28_Witness ==
    /\ dispatch.pc = "left"
    /\ dispatch.index = "ExitThisThread"
    /\ dispatch.invoked = <<"helExitThisThread">>

(***************************************************************************)
(* The steps of a channel, under SpecIpc.                                  *)
(***************************************************************************)
\* The channel a send, and a receive, through handle h goes to.
SendChannelOf(h) == <<descriptorMap[h].obj, SendChannel(descriptorMap[h].type)>>

RecvChannelOf(h) == <<descriptorMap[h].obj, RecvChannel(descriptorMap[h].type)>>

ChannelAfter(c) == pipes'[c[1]][c[2]]

\* The tags of a message and the filters of a receive agree.
TagsMatch(msgRequest, msgSeq, filterRequest, filterSeq) ==
    /\ filterRequest = -1 \/ filterRequest = msgRequest
    /\ filterSeq = -1 \/ filterSeq = msgSeq

\* What one accepted SendString does to its channel.
SendStep ==
    Len(sendLog') = Len(sendLog) + 1 =>
        LET a == sendLog'[Len(sendLog')]
            c == SendChannelOf(a[1])
            before == ChannelOf(c)
            after == ChannelAfter(c)
            waiting == {i \in DOMAIN before.recvs :
                           TagsMatch(a[4], a[5], before.recvs[i].filterRequest,
                                     before.recvs[i].filterSeq)}
        IN  /\ \A d \in ChannelIds : d # c => ChannelAfter(d) = ChannelOf(d)
            /\ IF waiting # {}
               THEN /\ Len(completions') = Len(completions) + 1
                    /\ Len(posted') = Len(posted) + 1
                    /\ completions'[Len(completions')].message.sno
                           = Len(sendLog')
                    /\ \E i \in waiting :
                          /\ completions'[Len(completions')].recv
                                 = before.recvs[i]
                          /\ after.recvs = RemoveAt(before.recvs, i)
                    /\ after.messages = before.messages
               ELSE /\ completions' = completions
                    /\ posted' = posted
                    /\ after.recvs = before.recvs
                    /\ Len(after.messages) = Len(before.messages) + 1
                    /\ SubSeq(after.messages, 1, Len(before.messages))
                           = before.messages
                    /\ after.messages[Len(after.messages)].sno
                           = Len(sendLog')

\* What one accepted SubmitRecvString does to its channel.
RecvStep ==
    Len(recvLog') = Len(recvLog) + 1 =>
        LET a == recvLog'[Len(recvLog')]
            c == RecvChannelOf(a[1])
            before == ChannelOf(c)
            after == ChannelAfter(c)
            pending == {i \in DOMAIN before.messages :
                           TagsMatch(before.messages[i].msgRequest,
                                     before.messages[i].msgSeq, a[5], a[6])}
        IN  /\ \A d \in ChannelIds : d # c => ChannelAfter(d) = ChannelOf(d)
            /\ IF pending # {}
               THEN /\ Len(completions') = Len(completions) + 1
                    /\ Len(posted') = Len(posted) + 1
                    /\ completions'[Len(completions')].recv.rno
                           = Len(recvLog')
                    /\ \E i \in pending :
                          /\ completions'[Len(completions')].message
                                 = before.messages[i]
                          /\ after.messages = RemoveAt(before.messages, i)
                    /\ after.recvs = before.recvs
               ELSE /\ completions' = completions
                    /\ posted' = posted
                    /\ after.messages = before.messages
                    /\ Len(after.recvs) = Len(before.recvs) + 1
                    /\ SubSeq(after.recvs, 1, Len(before.recvs))
                           = before.recvs
                    /\ after.recvs[Len(after.recvs)].rno = Len(recvLog')

\* Between the calls: no message is delivered twice or still queued after
\* its delivery, no receive completes twice or stays queued after its
\* completion, and no queued message matches a queued receive.
ChannelQuiescent ==
    /\ \A i, j \in DOMAIN completions :
           i # j => /\ completions[i].message.sno # completions[j].message.sno
                    /\ completions[i].recv.rno # completions[j].recv.rno
    /\ \A c \in ChannelIds :
           /\ \A k \in DOMAIN ChannelOf(c).messages, i \in DOMAIN completions :
                  ChannelOf(c).messages[k].sno # completions[i].message.sno
           /\ \A k \in DOMAIN ChannelOf(c).recvs, i \in DOMAIN completions :
                  ChannelOf(c).recvs[k].rno # completions[i].recv.rno
           /\ \A k \in DOMAIN ChannelOf(c).messages,
                 l \in DOMAIN ChannelOf(c).recvs :
                  ~TagsMatch(ChannelOf(c).messages[k].msgRequest,
                             ChannelOf(c).messages[k].msgSeq,
                             ChannelOf(c).recvs[l].filterRequest,
                             ChannelOf(c).recvs[l].filterSeq)

\* C29: a send that finds a matching waiting receive completes that one
\* receive (one completion event, the receive record removed) and enqueues
\* nothing, otherwise it enqueues one message record; a submit_recv does
\* the same with the pending messages; so a message is delivered to at
\* most one receive, a receive completes at most once, and between the
\* calls no queued message matches a queued receive.
C29_ChannelSteps ==
    [](ChannelQuiescent) /\ [][SendStep /\ RecvStep]_vars

\* A send completed a waiting receive of its channel while another receive,
\* which it does not match, stays queued there next to a message that
\* matches no receive.
C29_Witness ==
    \E c \in ChannelIds :
        /\ ChannelOf(c).messages # <<>>
        /\ ChannelOf(c).recvs # <<>>
        /\ \E i \in DOMAIN completions :
               /\ completions[i].pipe = c[1] /\ completions[i].side = c[2]
               /\ completions[i].waited = "recv"

(***************************************************************************)
(* What loadInitImage leaves in memory, under SpecLoad.                    *)
(***************************************************************************)
\* The byte at offset off of a frame (-1: never written by the kernel).
Byte(frame, off) ==
    IF off \in DOMAIN frame.bytes THEN frame.bytes[off]
    ELSE IF frame.fill = "zero" THEN 0 ELSE -1

\* The byte the init thread reads at a mapped virtual address.
VirtByte(va) ==
    Byte(frameData[pageTable[(va \div page_size) * page_size]],
         va % page_size)

\* The segments the claim is about.
Loadable(phdr) == phdr.p_type = PT_LOAD /\ phdr.p_filesz <= phdr.p_memsz

PageCount ==
    \A k \in DOMAIN image :
        Loadable(image[k]) =>
            num_pages(image[k]) =
                (top(image[k]) + 4095) \div 4096 - bottom(image[k]) \div 4096

PageIndexesInRange ==
    (loader.pc = "map" /\ Loadable(image[loader.i + 1])) =>
        \A page \in loader.used : page < num_pages(image[loader.i + 1])

\* The pages of segment k hold the file's bytes where the file has some
\* and 0 elsewhere.
SegmentBytes(k) ==
    LET phdr == image[k]
    IN \A v \in (4096 * (phdr.p_vaddr \div 4096))
                    ..(4096 * ((top(phdr) + 4095) \div 4096) - 1) :
           VirtByte(1073741824 + v) =
               IF phdr.p_vaddr <= v /\ v < phdr.p_vaddr + phdr.p_filesz
               THEN FileByte(phdr.p_offset + (v - phdr.p_vaddr))
               ELSE 0

\* No two loaded segments of the image share a page.
NoSharedPage ==
    \A j, k \in DOMAIN image :
        (j # k /\ Loaded(image[j]) /\ Loaded(image[k])) =>
            \/ top(image[j]) <= 4096 * (bottom(image[k]) \div 4096)
            \/ top(image[k]) <= 4096 * (bottom(image[j]) \div 4096)

\* After the three loops of a segment its bytes are in place, and they all
\* still are when loadInitImage returns, unless a later segment took over
\* a page.
BytesInPlace ==
    /\ (/\ loader.pc = "map"
        /\ loader.page = num_pages(image[loader.i + 1])
        /\ Loadable(image[loader.i + 1])) => SegmentBytes(loader.i + 1)
    /\ (loader.pc = "stack" /\ NoSharedPage) =>
           \A k \in DOMAIN image :
               (Loaded(image[k]) /\ Loadable(image[k])) => SegmentBytes(k)

\* The loop body on a segment of p_memsz = 0 or of another type.
SkipStep ==
    (/\ loader.pc = "segment"
     /\ loader.i < Len(image)
     /\ \/ image[loader.i + 1].p_type # PT_LOAD
        \/ image[loader.i + 1].p_memsz = 0) =>
        /\ mappings' = mappings
        /\ pageTable' = pageTable
        /\ memories' = memories

\* C30: for every PT_LOAD segment with p_filesz <= p_memsz, num_pages is
\* ceil(top / 4096) - floor(bottom / 4096); every page index used while
\* zeroing, copying and mapping is below num_pages; afterwards the byte at
\* 0x40000000 + v is image[p_offset + (v - p_vaddr)] for every v in
\* [p_vaddr, p_vaddr + p_filesz) and every other byte of the segment's
\* pages is 0; a segment with p_memsz = 0 or of a type other than PT_LOAD
\* creates no mapping.
C30_LoadInitImage ==
    [](PageCount /\ PageIndexesInRange /\ BytesInPlace) /\ [][SkipStep]_vars

\* loadInitImage has returned from an image with a segment whose file
\* bytes lie on two pages and one with bytes beyond the file's.
C30_Witness ==
    /\ loader.pc = "stack"
    /\ Len(image) = 2
    /\ image[1].p_vaddr = 4000 /\ image[1].p_memsz = 200
    /\ image[2].p_vaddr = 8192 /\ image[2].p_memsz = 4096
    /\ Loaded(image[1]) /\ Loaded(image[2])
    /\ VirtByte(1073741824 + 4100) = FileByte(image[1].p_offset + 100)
    /\ VirtByte(1073741824 + 8192 + 200) = 0

(***************************************************************************)
(* SpecGlobal: KernelVirtualMemory::global(), called from                  *)
(* KernelVirtualAlloc::map() by a thread on each processor and by an       *)
(* interrupt handler on the first one.  global() takes no lock, so the     *)
(* callers interleave at every statement.                                  *)
(***************************************************************************)
\* Calls of map() per caller.
MaxMaps == 2

Callers == {<<1, "thread">>, <<1, "irq">>, <<2, "thread">>}

\* kernelVirtualMemory: static storage, nothing constructed in it.
LazyKernelVirtualMemory ==
    [pc |-> "lazy", initialized |-> FALSE, constructed |-> 0, chunks |-> 0,
     callers |-> [c \in Callers |-> [pc |-> "idle", calls |-> 0, got |-> {}]]]

\* A thread runs while no handler is on its processor; a handler runs from
\* its interrupt to its return.
Runnable(c) ==
    c[2] = "thread" =>
        (<<c[1], "irq">> \in Callers =>
            kernelHeap.callers[<<c[1], "irq">>].pc = "idle")

\* What LazyInitializer::initialize() may do on storage that already holds
\* an object: fail an assertion, or construct over it.
InitializeTwice == {"assert", "construct"}

GlobalStart ==
    /\ kernelHeap = NoKernelHeap
    /\ kernelHeap' = LazyKernelVirtualMemory
    /\ UNCHANGED heapRestVars

\* if(!kernelVirtualMemory): what the caller reads.
global_check(c) == kernelHeap.initialized

GlobalCheck(c) ==
    /\ ~panicked
    /\ kernelHeap.pc = "lazy"
    /\ kernelHeap.callers[c].pc = "idle"
    /\ kernelHeap.callers[c].calls < MaxMaps
    /\ Runnable(c)
    /\ kernelHeap' =
           [kernelHeap EXCEPT !.callers[c].pc =
               IF global_check(c) THEN "return" ELSE "initialize"]
    /\ UNCHANGED heapRestVars

\* kernelVirtualMemory.initialize(): the constructor starts.
GlobalInitialize(c) ==
    /\ ~panicked
    /\ kernelHeap.pc = "lazy"
    /\ kernelHeap.callers[c].pc = "initialize"
    /\ Runnable(c)
    /\ \E outcome \in InitializeTwice :
          IF kernelHeap.constructed > 0 /\ outcome = "assert"
          THEN /\ panicked' = TRUE
               /\ UNCHANGED <<kernelHeap, descriptorMap, nextHandle>>
          ELSE /\ kernelHeap' =
                      [kernelHeap EXCEPT !.constructed = @ + 1,
                                         !.callers[c].pc = "addChunk"]
               /\ UNCHANGED universeVars
    /\ UNCHANGED <<historyVars, objectVars, ret, threadVars, ipcHistoryVars,
                   serverHistoryVars, hubHistoryVars, lastCall, asyncVars,
                   irqVars, spaceVars, cpuData, spinlocks, universeCalls,
                   boot, temporaries, dispatch, uhci>>

\* The end of the constructor: _buddy.addChunk(...).
GlobalAddChunk(c) ==
    /\ ~panicked
    /\ kernelHeap.pc = "lazy"
    /\ kernelHeap.callers[c].pc = "addChunk"
    /\ Runnable(c)
    /\ kernelHeap' = [kernelHeap EXCEPT !.chunks = @ + 1,
                                        !.callers[c].pc = "flag"]
    /\ UNCHANGED heapRestVars

\* initialize() marks the storage as holding an object.
GlobalSetInitialized(c) ==
    /\ ~panicked
    /\ kernelHeap.pc = "lazy"
    /\ kernelHeap.callers[c].pc = "flag"
    /\ Runnable(c)
    /\ kernelHeap' = [kernelHeap EXCEPT !.initialized = TRUE,
                                        !.callers[c].pc = "return"]
    /\ UNCHANGED heapRestVars

\* return *kernelVirtualMemory: the object the storage holds by now (the
\* number of the constructor run that made it).
GlobalReturn(c) ==
    /\ ~panicked
    /\ kernelHeap.pc = "lazy"
    /\ kernelHeap.callers[c].pc = "return"
    /\ Runnable(c)
    /\ kernelHeap' =
           [kernelHeap EXCEPT
               !.callers[c] = [pc |-> "idle", calls |-> @.calls + 1,
                               got |-> @.got \cup {kernelHeap.constructed}]]
    /\ UNCHANGED heapRestVars

NextGlobal ==
    \/ GlobalStart
    \/ \E c \in Callers : GlobalCheck(c)
    \/ \E c \in Callers : GlobalInitialize(c)
    \/ \E c \in Callers : GlobalAddChunk(c)
    \/ \E c \in Callers : GlobalSetInitialized(c)
    \/ \E c \in Callers : GlobalReturn(c)

SpecGlobal == InitUniverse /\ [][NextGlobal]_vars

\* C31: the KernelVirtualMemory singleton is constructed at most once: for
\* any interleaving of the callers of global(), one interrupted between
\* the check and initialize() included, the constructor runs once, the
\* buddy chunk is added once, and every caller gets the same instance.
C31_ConstructedOnce ==
    kernelHeap.pc = "lazy" =>
        /\ ~panicked
        /\ kernelHeap.constructed <= 1
        /\ kernelHeap.chunks <= 1
        /\ \A c \in Callers :
               kernelHeap.callers[c].got # {} =>
                   /\ kernelHeap.constructed = 1
                   /\ kernelHeap.chunks = 1
        /\ Cardinality(UNION {kernelHeap.callers[c].got : c \in Callers})
               <= 1

(***************************************************************************)
(* SpecUhci: the UHCI driver.  Routines queue control transfers, the host  *)
(* controller executes the descriptors of the queue heads it reaches from  *)
(* _initialQh and raises interrupts, and Controller::onIrq walks the       *)
(* schedule list, one statement group at a time.                           *)
(***************************************************************************)
\* Transactions a behaviour creates.
MaxTransactions == 2

\* What the driver leaves alone.
uhciRestVars ==
    <<universeVars, historyVars, objectVars, ret, threadVars, ipcHistoryVars,
      serverHistoryVars, hubHistoryVars, lastCall, asyncVars, irqVars,
      spaceVars, cpuData, spinlocks, universeCalls, kernelHeap, boot,
      temporaries, dispatch>>

\* A default-constructed LinkPointer: the terminating link.  A link to a
\* queue head is the number of the transaction that owns it.
Terminate == 0

\* wLength of the setup packets, and the endpoint's maxPacketSize.
WLengths == {0, 9}

maxPacketSize == 8

\* Bits of the status register.
kStatusInterrupt == "interrupt"

kStatusError == "error"

HostErrors == {"hostSystemError", "hcProcessError"}

\* Controller::Controller and Controller::initialize(): an empty schedule,
\* _initialQh default-constructed, the controller running, one wait armed.
NewController ==
    [pc |-> "idle", initialQh |-> Terminate, transactions |-> <<>>,
     scheduleList |-> <<>>, it |-> 0, status |-> {}, waits |-> 1,
     raised |-> FALSE,
     before |-> <<>>, returnedTrue |-> {}, returnedFalse |-> {}]

\* Transaction::Transaction and buildQueue(): _numTransfers data
\* descriptors between the setup and the status descriptor, all active,
\* and a new queue head.
buildQueue(wLength) ==
    LET max_size == maxPacketSize
        numTransfers == (wLength + max_size - 1) \div max_size
    IN [numTransfers |-> numTransfers, completeCounter |-> 0,
        linkPointer |-> Terminate,
        transfers |-> [i \in 1..(numTransfers + 2) |-> "active"],
        callbacks |-> 0, calledAt |-> <<>>]

\* Controller::transfer().
Controller_transfer(u, wLength) ==
    LET transaction == Len(u.transactions) + 1
        built == Append(u.transactions, buildQueue(wLength))
    IN IF u.scheduleList = <<>>
       THEN [u EXCEPT !.transactions = built,
                      !.initialQh = transaction,
                      !.scheduleList = Append(@, transaction)]
       ELSE [u EXCEPT
                !.transactions =
                    [built EXCEPT
                        ![u.scheduleList[Len(u.scheduleList)]].linkPointer =
                            transaction],
                !.scheduleList = Append(@, transaction)]

\* The place of a transaction in the schedule list.
IteratorTo(list, transaction) ==
    CHOOSE i \in DOMAIN list : list[i] = transaction

\* erase() that always stores the link in _initialQh.
Controller_erase_HeadOnly(u, transaction) ==
    LET i == IteratorTo(u.scheduleList, transaction)
        link == IF i < Len(u.scheduleList) THEN u.scheduleList[i + 1]
                ELSE Terminate
    IN [u EXCEPT !.initialQh = link,
                 !.scheduleList = RemoveAt(@, i)]

\* Controller::erase().
Controller_erase(u, transaction) ==
    LET i == IteratorTo(u.scheduleList, transaction)
        link == IF i < Len(u.scheduleList) THEN u.scheduleList[i + 1]
                ELSE Terminate
    IN IF i = 1
       THEN [u EXCEPT !.initialQh = link,
                      !.scheduleList = RemoveAt(@, i)]
       ELSE [u EXCEPT
                !.transactions[u.scheduleList[i - 1]].linkPointer = link,
                !.scheduleList = RemoveAt(@, i)]

\* The loop of Transaction::progress() from _completeCounter = counter on:
\* where it stops, what it returns, and whether it got to _callback().
RECURSIVE progressLoop(_, _)
progressLoop(t, counter) ==
    IF counter < t.numTransfers + 2
    THEN IF t.transfers[counter + 1] = "active"
         THEN [completeCounter |-> counter, result |-> FALSE,
               callback |-> FALSE]
         ELSE IF t.transfers[counter + 1] = "error"
         THEN [completeCounter |-> counter, result |-> TRUE,
               callback |-> FALSE]
         ELSE progressLoop(t, counter + 1)
    ELSE [completeCounter |-> counter, result |-> TRUE, callback |-> TRUE]

\* progress() that calls _callback() whenever it returns true, after a
\* failed descriptor too.
progress_CallbackOnError(t) ==
    LET r == progressLoop(t, t.completeCounter)
    IN [r EXCEPT !.callback = r.result]

\* Transaction::progress().
progress(t) == progressLoop(t, t.completeCounter)

\* The queue heads the controller reaches from _initialQh, in order; -1
\* when the links do not end.
RECURSIVE Chain(_, _, _)
Chain(u, link, fuel) ==
    IF link = Terminate THEN <<>>
    ELSE IF fuel = 0 THEN <<-1>>
    ELSE <<link>> \o Chain(u, u.transactions[link].linkPointer, fuel - 1)

HardwareChain(u) == Chain(u, u.initialQh, Len(u.transactions))

\* The descriptor the controller executes next in a queue: the first
\* active one, unless a failed one before it stalled the queue (0).
NextDescriptor(t) ==
    IF \E i \in DOMAIN t.transfers : t.transfers[i] = "error" THEN 0
    ELSE IF \E i \in DOMAIN t.transfers : t.transfers[i] = "active"
    THEN CHOOSE i \in DOMAIN t.transfers :
             /\ t.transfers[i] = "active"
             /\ \A j \in 1..(i - 1) : t.transfers[j] # "active"
    ELSE 0

\* main() up to runHidDevice(): the controller is initialized.
UhciInitialize ==
    /\ uhci = NoUhci
    /\ uhci' = NewController
    /\ UNCHANGED uhciRestVars

\* A routine awaits WaitForXfer: await_suspend() calls transfer().  The
\* driver is single-threaded, so this is not inside onIrq.
AwaitTransfer(wLength) ==
    /\ uhci.pc = "idle"
    /\ Len(uhci.transactions) < MaxTransactions
    /\ uhci' = Controller_transfer(uhci, wLength)
    /\ UNCHANGED uhciRestVars

\* The controller executes the next descriptor of a queue it reaches, while
\* the driver waits or is inside the loop of onIrq.
HwExecute(transaction, outcome) ==
    /\ uhci.pc \in {"idle", "loop"}
    /\ \E i \in DOMAIN HardwareChain(uhci) :
           HardwareChain(uhci)[i] = transaction
    /\ NextDescriptor(uhci.transactions[transaction]) # 0
    /\ uhci' =
           [uhci EXCEPT
               !.transactions[transaction].transfers[
                   NextDescriptor(uhci.transactions[transaction])] = outcome,
               !.status = @ \cup {IF outcome = "error" THEN kStatusError
                                  ELSE kStatusInterrupt},
               !.raised = TRUE]
    /\ UNCHANGED uhciRestVars

\* Another device raises the shared interrupt line.
IrqShared ==
    /\ uhci.pc = "idle"
    /\ ~uhci.raised
    /\ uhci.status = {}
    /\ uhci' = [uhci EXCEPT !.raised = TRUE]
    /\ UNCHANGED uhciRestVars

\* onIrq up to the loop: the status is read, checked and acknowledged.
\* `hostErrors` are the host error bits the controller has set by then.
IrqBegin(hostErrors) ==
    /\ uhci.pc = "idle"
    /\ uhci.raised
    /\ uhci.waits > 0
    /\ uhci' =
           IF hostErrors # {}
           THEN [uhci EXCEPT !.pc = "aborted", !.waits = @ - 1,
                             !.raised = FALSE]
           ELSE [uhci EXCEPT
                    !.pc = IF uhci.status
                                  \cap {kStatusInterrupt, kStatusError} # {}
                           THEN "loop" ELSE "rearm",
                    !.it = 1,
                    !.waits = @ - 1,
                    !.raised = FALSE,
                    !.status = @ \ {kStatusInterrupt, kStatusError},
                    !.before = uhci.scheduleList,
                    !.returnedTrue = {},
                    !.returnedFalse = {}]
    /\ UNCHANGED uhciRestVars

\* What the routine resumed by _callback() does before it suspends again
\* or ends: nothing to the controller, or await the next WaitForXfer.
Resumed(u) ==
    {u} \cup (IF Len(u.transactions) < MaxTransactions
              THEN {Controller_transfer(u, w) : w \in WLengths}
              ELSE {})

\* One turn of the loop up to the call of erase(): it->progress(), with
\* the callback it makes, and ++it if it returned false.
IrqProgress ==
    /\ uhci.pc = "loop"
    /\ uhci.it <= Len(uhci.scheduleList)
    /\ LET transaction == uhci.scheduleList[uhci.it]
           r == progress(uhci.transactions[transaction])
           counted == [uhci EXCEPT
                          !.transactions[transaction].completeCounter =
                              r.completeCounter]
       IN IF r.callback
          THEN \E u \in Resumed(
                    [counted EXCEPT
                        !.transactions[transaction].callbacks = @ + 1,
                        !.transactions[transaction].calledAt =
                            counted.transactions[transaction].transfers]) :
                   uhci' = [u EXCEPT !.pc = "erase",
                                     !.returnedTrue = @ \cup {transaction}]
          ELSE IF r.result
          THEN uhci' = [counted EXCEPT
                           !.pc = "erase",
                           !.returnedTrue = @ \cup {transaction}]
          ELSE uhci' = [counted EXCEPT
                           !.it = @ + 1,
                           !.returnedFalse = @ \cup {transaction}]
    /\ UNCHANGED uhciRestVars

\* it = erase(&(*it)).
IrqErase ==
    /\ uhci.pc = "erase"
    /\ uhci' = [Controller_erase(uhci, uhci.scheduleList[uhci.it])
                   EXCEPT !.pc = "loop"]
    /\ UNCHANGED uhciRestVars

\* The loop ends at scheduleList.end().
IrqLoopEnd ==
    /\ uhci.pc = "loop"
    /\ uhci.it > Len(uhci.scheduleList)
    /\ uhci' = [uhci EXCEPT !.pc = "rearm"]
    /\ UNCHANGED uhciRestVars

\* _irq.wait(eventHub, CALLBACK_MEMBER(this, &Controller::onIrq)).
IrqRearm ==
    /\ uhci.pc = "rearm"
    /\ uhci' = [uhci EXCEPT !.pc = "idle", !.it = 0, !.waits = @ + 1,
                            !.before = <<>>, !.returnedTrue = {},
                            !.returnedFalse = {}]
    /\ UNCHANGED uhciRestVars

NextUhci ==
    \/ UhciInitialize
    \/ \E w \in WLengths : AwaitTransfer(w)
    \/ \E t \in 1..MaxTransactions, outcome \in {"done", "error"} :
          uhci.pc # "none" /\ t <= Len(uhci.transactions)
              /\ HwExecute(t, outcome)
    \/ IrqShared
    \/ \E hostErrors \in SUBSET HostErrors :
          uhci.pc # "none" /\ IrqBegin(hostErrors)
    \/ IrqProgress
    \/ IrqErase
    \/ IrqLoopEnd
    \/ IrqRearm

SpecUhci == InitUniverse /\ [][NextUhci]_vars

(***************************************************************************)
(* SpecChain: Controller::transfer() and Controller::erase() called in any *)
(* order, as the routines and onIrq may call them.                         *)
(***************************************************************************)
\* Transactions a behaviour of SpecChain creates.
MaxQueued == 4

ChainTransfer(wLength) ==
    /\ uhci.pc = "idle"
    /\ Len(uhci.transactions) < MaxQueued
    /\ uhci' = Controller_transfer(uhci, wLength)
    /\ UNCHANGED uhciRestVars

ChainErase(transaction) ==
    /\ uhci.pc = "idle"
    /\ \E i \in DOMAIN uhci.scheduleList :
           uhci.scheduleList[i] = transaction
    /\ uhci' = Controller_erase(uhci, transaction)
    /\ UNCHANGED uhciRestVars

NextChain ==
    \/ UhciInitialize
    \/ \E w \in WLengths : ChainTransfer(w)
    \/ \E t \in 1..MaxQueued : uhci.pc # "none" /\ ChainErase(t)

SpecChain == InitUniverse /\ [][NextChain]_vars

\* C32: after any sequence of Controller::transfer and Controller::erase
\* calls, following the hardware link pointers from _initialQh visits
\* exactly the transactions in scheduleList, in list order, and then ends;
\* the queue head of an erased transaction is not reached from _initialQh,
\* and with an empty list the link of _initialQh is the terminating link.
C32_ChainIsScheduleList ==
    uhci.pc # "none" =>
        /\ HardwareChain(uhci) = uhci.scheduleList
        /\ \A t \in DOMAIN uhci.transactions :
               (\A i \in DOMAIN uhci.scheduleList : uhci.scheduleList[i] # t)
                   => \A j \in DOMAIN HardwareChain(uhci) :
                          HardwareChain(uhci)[j] # t
        /\ uhci.scheduleList = <<>> => uhci.initialQh = Terminate

\* Four transactions were queued and the second and the fourth erased: the
\* first one's queue head links to the third one's, which ends the chain.
C32_Witness ==
    /\ uhci.pc # "none"
    /\ Len(uhci.transactions) = 4
    /\ uhci.scheduleList = <<1, 3>>
    /\ uhci.initialQh = 1
    /\ uhci.transactions[1].linkPointer = 3
    /\ uhci.transactions[3].linkPointer = Terminate

(***************************************************************************)
(* The completion of transfers, under SpecUhci.                            *)
(***************************************************************************)
InList(u, t) == \E i \in DOMAIN u.scheduleList : u.scheduleList[i] = t

HasActive(t) == \E i \in DOMAIN t.transfers : t.transfers[i] = "active"

\* _completeCounter stays within the descriptors, and the callback ran at
\* most once, with every descriptor inactive and free of errors.
CountersAndCallbacks ==
    uhci.pc # "none" =>
        \A t \in DOMAIN uhci.transactions :
            LET x == uhci.transactions[t]
            IN /\ x.completeCounter <= x.numTransfers + 2
               /\ x.callbacks <= 1
               /\ x.callbacks = 1 =>
                      /\ Len(x.calledAt) = x.numTransfers + 2
                      /\ \A i \in DOMAIN x.calledAt :
                             x.calledAt[i] = "done"
                      /\ \A i \in DOMAIN x.transfers :
                             x.transfers[i] = "done"

CounterStep ==
    (uhci.pc # "none" /\ uhci'.pc # "none") =>
        \A t \in DOMAIN uhci.transactions :
            uhci'.transactions[t].completeCounter
                >= uhci.transactions[t].completeCounter

\* At the end of the loop of onIrq: gone from the list are exactly the
\* transactions whose progress() returned true.
RemovedAreReturnedTrue ==
    uhci.pc = "rearm" =>
        /\ \A t \in uhci.returnedTrue : ~InList(uhci, t)
        /\ \A i \in DOMAIN uhci.before :
               uhci.before[i] \notin uhci.returnedTrue =>
                   InList(uhci, uhci.before[i])
        /\ uhci.returnedTrue \cap uhci.returnedFalse = {}
        /\ \A t \in uhci.returnedTrue :
               LET x == uhci.transactions[t]
               IN \/ x.callbacks = 1
                  \/ /\ x.completeCounter < x.numTransfers + 2
                     /\ x.transfers[x.completeCounter + 1] = "error"

\* onIrq arms the next wait before it returns.
Rearmed ==
    /\ uhci.pc = "idle" => uhci.waits = 1
    /\ uhci.pc \in {"loop", "erase", "rearm"} => uhci.waits = 0

\* onIrq keeps every transaction that still has an active descriptor.
KeepsActive ==
    uhci.pc = "rearm" =>
        \A i \in DOMAIN uhci.before :
            HasActive(uhci.transactions[uhci.before[i]]) =>
                InList(uhci, uhci.before[i])

\* onIrq keeps every transaction whose descriptor at _completeCounter is
\* still active.
KeepsWaiting ==
    uhci.pc = "rearm" =>
        \A i \in DOMAIN uhci.before :
            LET x == uhci.transactions[uhci.before[i]]
            IN (/\ x.completeCounter < x.numTransfers + 2
                /\ x.transfers[x.completeCounter + 1] = "active") =>
                   InList(uhci, uhci.before[i])

\* C33 as stated: for every Transaction, _completeCounter never decreases
\* and never exceeds _numTransfers + 2; its callback is invoked at most
\* once and only with all _numTransfers + 2 descriptors inactive and free
\* of errors; onIrq removes from scheduleList exactly the transactions
\* whose progress() returned true, keeps every transaction that still has
\* an active descriptor, and re-arms the IRQ wait after every IRQ event it
\* handles.
C33_TransferCompletion ==
    [](CountersAndCallbacks /\ RemovedAreReturnedTrue /\ KeepsActive
           /\ Rearmed)
        /\ [][CounterStep]_vars

\* C33, amended: as above, but onIrq keeps every transaction whose
\* descriptor at _completeCounter is still active; a transaction with a
\* failed descriptor is removed although the descriptors after the failed
\* one are still active.
C33_KeepsUnfinished ==
    [](CountersAndCallbacks /\ RemovedAreReturnedTrue /\ KeepsWaiting
           /\ Rearmed)
        /\ [][CounterStep]_vars

\* At the end of a loop of onIrq one transaction is complete, its callback
\* made and the transaction off the list, and another is kept with
\* descriptors still active.
C33_Witness ==
    /\ uhci.pc = "rearm"
    /\ \E t \in uhci.returnedTrue :
           /\ uhci.transactions[t].callbacks = 1
           /\ ~InList(uhci, t)
    /\ \E t \in uhci.returnedFalse :
           /\ InList(uhci, t)
           /\ uhci.transactions[t].completeCounter > 0
           /\ HasActive(uhci.transactions[t])
====
